---- MODULE Spec2Model ----
(***************************************************************************)
(* Model of the ledger engine of MitrickX/OTUS-rust-homeworks: the Bank    *)
(* (accounts + operations log) of bank_channel/server/src/bank.rs and the  *)
(* OperationsLog of bank_srv_cl/server/src/bank/log.rs.                    *)
(*                                                                         *)
(* Balances and amounts are u64 in the source and the balance update is    *)
(* done in i64.  TLC's integers are 32 bits wide, so the model keeps the   *)
(* two's-complement arithmetic but over Width bits: Modulus stands for     *)
(* 2^64 and Half for 2^63.  Every cast, negation and addition is computed  *)
(* as the machine computes it, relative to these two values.               *)
(***************************************************************************)
EXTENDS Integers, Sequences, FiniteSets, TLC

VARIABLES
    bank,             \* the Bank under test: [accounts, operations_log]
    uuid_count,       \* number of OperationIDs generated so far
    overflow_checks,  \* build profile: TRUE = debug (overflow panics), FALSE = release (wraps)
    panicked,         \* TRUE once a call has panicked
    steps,            \* number of calls made so far
    last,             \* the most recent call: its arguments, its result, the bank before it
    accepted,         \* the kinds of the commands that returned Ok so far, in call order
    replay,           \* Bank::restore on a given operation sequence: the input and the result
    variant,          \* which server the repository belongs to
    repo,             \* the Repository / Context: [banks, current_bank]
    account_count,    \* number of AccountIDs generated by Account::new so far
    rlast,            \* the most recent repository call, its result, the repository before it
    channel,          \* the unbounded mpsc channel to the actor: (Command, Sender<String>) in flight
    sessions,         \* per connection: where its handler is, and its oneshot reply channel
    actor,            \* repository_actor: waiting in recv, or holding a response to send
    history,          \* what was submitted, received, executed and written, in order
    pending,          \* bank_srv_cl: the handlers between their read lock and their write lock
    list,             \* linked_list List<T>: the cells (Rc<RefCell<Option<Node>>>), head, tail, size
    reference         \* the sequence the pushes made so far describe

bankVars == <<bank, last, accepted>>
replayVars == <<replay>>
repoVars == <<variant, repo, account_count, rlast, pending>>
actorVars == <<channel, sessions, actor, history>>
listVars == <<list, reference>>

vars == <<bank, uuid_count, overflow_checks, panicked, steps, last, accepted,
          replay, variant, repo, account_count, rlast, pending,
          channel, sessions, actor, history, list, reference>>

----------------------------------------------------------------------------
\* Bounds of the model

\* width in bits of the model's machine integers (64 in the source)
Width == 8

\* number of calls in a run
MaxSteps == 3

\* length of the operation sequences given to Bank::restore
MaxReplayLen == 3

\* number of repository calls in a run
MaxRepoSteps == 4

\* number of commands a connection sends
MaxCommands == 2

\* number of pushes made on the linked list
MaxPushes == 4

Modulus == 2 ^ Width
Half == 2 ^ (Width - 1)
MaxU == Modulus - 1

\* account identifiers the callers use (Uuid values in the source)
AccountIDs == {1, 2, 3}

\* balances given to Register and amounts given to Deposit/Withdraw/Transfer
Balances == {0, 2, Half - 1, MaxU}
Amounts == {0, 1, 2, Half, MaxU}

----------------------------------------------------------------------------
\* Machine arithmetic

\* `x as i64` for a u64 x
as_i64(x) == IF x >= Half THEN x - Modulus ELSE x

\* `x as u64` for an i64 x
as_u64(x) == x % Modulus

\* does the mathematical result leave the i64 range
overflows_i64(x) == x < -Half \/ x > Half - 1

\* the i64 a wrapping operation produces for the mathematical result x
wrap_i64(x) == as_i64(x % Modulus)

----------------------------------------------------------------------------
\* Operation kinds

Register(id, balance) == [type |-> "Register", id |-> id, balance |-> balance]
Deposit(id, amount) == [type |-> "Deposit", id |-> id, amount |-> amount]
Withdraw(id, amount) == [type |-> "Withdraw", id |-> id, amount |-> amount]
Transfer(sender_id, receiver_id, amount) ==
    [type |-> "Transfer", sender_id |-> sender_id, receiver_id |-> receiver_id,
     amount |-> amount]

\* Operation { id, kind }
Operation(id, kind) == [id |-> id, kind |-> kind]

----------------------------------------------------------------------------
\* OperationsLog

\* OperationsLog::new / Default
OperationsLog_new ==
    [accounts_operations |-> << >>, operations_by_id |-> << >>, operations |-> << >>]

\* OperationsLog::get: the operation stored under operation_id, or None
NoOperation == [id |-> 0, kind |-> [type |-> "None"]]

get(l, operation_id) ==
    IF operation_id \in DOMAIN l.operations_by_id
    THEN l.operations[l.operations_by_id[operation_id] + 1]
    ELSE NoOperation

\* OperationsLog::log_for_account: entry(account_id).or_default().push(operation_id)
log_for_account(ao, account_id, operation_id) ==
    IF account_id \in DOMAIN ao
    THEN [ao EXCEPT ![account_id] = Append(@, operation_id)]
    ELSE (account_id :> <<operation_id>>) @@ ao

\* log_operation indexing a Transfer under its sender only
log_operation_sender_only(l, operation) ==
    LET k == operation.kind
    IN [accounts_operations |->
            log_for_account(l.accounts_operations,
                            IF k.type = "Transfer" THEN k.sender_id ELSE k.id,
                            operation.id),
        operations_by_id |-> (operation.id :> Len(l.operations)) @@ l.operations_by_id,
        operations |-> Append(l.operations, operation)]

\* log_operation keeping only the newest operation in the sequence
log_operation_overwriting(l, operation) ==
    LET k == operation.kind
        ao == IF k.type = "Transfer"
              THEN log_for_account(
                       log_for_account(l.accounts_operations, k.sender_id, operation.id),
                       k.receiver_id, operation.id)
              ELSE log_for_account(l.accounts_operations, k.id, operation.id)
    IN [accounts_operations |-> ao,
        operations_by_id |-> (operation.id :> 0) @@ l.operations_by_id,
        operations |-> <<operation>>]

\* log_operation taking the index after the push
log_operation_index_after_push(l, operation) ==
    LET ops == Append(l.operations, operation)
        operation_idx == Len(ops)
        by_id == (operation.id :> operation_idx) @@ l.operations_by_id
        k == operation.kind
        ao == IF k.type = "Transfer"
              THEN log_for_account(
                       log_for_account(l.accounts_operations, k.sender_id, operation.id),
                       k.receiver_id, operation.id)
              ELSE log_for_account(l.accounts_operations, k.id, operation.id)
    IN [accounts_operations |-> ao, operations_by_id |-> by_id, operations |-> ops]

\* OperationsLog::log_operation
log_operation(l, operation) ==
    LET operation_idx == Len(l.operations)
        by_id == (operation.id :> operation_idx) @@ l.operations_by_id
        ops == Append(l.operations, operation)
        k == operation.kind
        ao == IF k.type = "Transfer"
              THEN log_for_account(
                       log_for_account(l.accounts_operations, k.sender_id, operation.id),
                       k.receiver_id, operation.id)
              ELSE log_for_account(l.accounts_operations, k.id, operation.id)
    IN [accounts_operations |-> ao, operations_by_id |-> by_id, operations |-> ops]

\* OperationsLog::log with the freshly generated operation_id
log(l, operation_kind, operation_id) ==
    log_operation(l, Operation(operation_id, operation_kind))

\* OperationsLog::get_all_operations
get_all_operations(l) == l.operations

\* OperationsLog::get_account_operations: the ids indexed under account_id, each
\* resolved through get
get_account_operations(l, account_id) ==
    IF account_id \in DOMAIN l.accounts_operations
    THEN [i \in 1..Len(l.accounts_operations[account_id]) |->
              get(l, l.accounts_operations[account_id][i])]
    ELSE << >>

----------------------------------------------------------------------------
\* Bank

\* Bank::default
Bank_default == [accounts |-> << >>, operations_log |-> OperationsLog_new]

Ret(b, res) == [bank |-> b, res |-> res]

\* do_register_account inserting without the contains_key check
do_register_account_overwriting(b, account) ==
    Ret([b EXCEPT !.accounts =
             (account.id :> account.balance) @@
             [id \in DOMAIN @ \ {account.id} |-> @[id]]], "Ok")

\* Bank::do_register_account
do_register_account(b, account) ==
    IF account.id \in DOMAIN b.accounts
    THEN Ret(b, "AlreadyExists")
    ELSE Ret([b EXCEPT !.accounts = (account.id :> account.balance) @@ @], "Ok")

\* Variants of update_account_balance_by_amount with a plausible slip each:
\* the sign check left out,
update_without_funds_check(b, id, amount) ==
    IF amount = 0 THEN Ret(b, "ZeroAmount")
    ELSE IF id \notin DOMAIN b.accounts THEN Ret(b, "NotFound")
    ELSE LET sum == as_i64(b.accounts[id]) + amount
         IN IF overflows_i64(sum) /\ overflow_checks THEN Ret(b, "Panic")
            ELSE Ret([b EXCEPT !.accounts[id] = as_u64(wrap_i64(sum))], "Ok")

\* the balance written before the sign check,
update_commit_before_check(b, id, amount) ==
    IF amount = 0 THEN Ret(b, "ZeroAmount")
    ELSE IF id \notin DOMAIN b.accounts THEN Ret(b, "NotFound")
    ELSE LET sum == as_i64(b.accounts[id]) + amount
         IN IF overflows_i64(sum) /\ overflow_checks THEN Ret(b, "Panic")
            ELSE LET result_balance == wrap_i64(sum)
                     written == [b EXCEPT !.accounts[id] = as_u64(result_balance)]
                 IN IF result_balance < 0 THEN Ret(written, "InsufficientFunds")
                    ELSE Ret(written, "Ok")

\* the account looked up before the zero-amount check
update_lookup_before_zero_check(b, id, amount) ==
    IF id \notin DOMAIN b.accounts THEN Ret(b, "NotFound")
    ELSE IF amount = 0 THEN Ret(b, "ZeroAmount")
    ELSE LET sum == as_i64(b.accounts[id]) + amount
         IN IF overflows_i64(sum) /\ overflow_checks THEN Ret(b, "Panic")
            ELSE LET result_balance == wrap_i64(sum)
                 IN IF result_balance < 0 THEN Ret(b, "InsufficientFunds")
                    ELSE Ret([b EXCEPT !.accounts[id] = as_u64(result_balance)], "Ok")

\* Bank::update_account_balance_by_amount, amount an i64
update_account_balance_by_amount(b, id, amount) ==
    IF amount = 0 THEN Ret(b, "ZeroAmount")
    ELSE IF id \notin DOMAIN b.accounts THEN Ret(b, "NotFound")
    ELSE LET sum == as_i64(b.accounts[id]) + amount
         IN IF overflows_i64(sum) /\ overflow_checks THEN Ret(b, "Panic")
            ELSE LET result_balance == wrap_i64(sum)
                 IN IF result_balance < 0 THEN Ret(b, "InsufficientFunds")
                    ELSE Ret([b EXCEPT !.accounts[id] = as_u64(result_balance)], "Ok")

\* `-(amount as i64)`: the negation overflows for amount = 2^63
neg_overflows(amount) == as_i64(amount) = -Half

neg_i64(amount) == wrap_i64(-as_i64(amount))

\* Bank::do_deposit
do_deposit(b, id, amount) ==
    update_account_balance_by_amount(b, id, as_i64(amount))

\* do_withdraw passing the amount on without negating it
do_withdraw_without_negation(b, id, amount) ==
    update_account_balance_by_amount(b, id, as_i64(amount))

\* Bank::do_withdraw
do_withdraw(b, id, amount) ==
    IF neg_overflows(amount) /\ overflow_checks THEN Ret(b, "Panic")
    ELSE update_account_balance_by_amount(b, id, neg_i64(amount))

\* do_transfer without the sender == receiver check
do_transfer_without_self_check(b, sender_id, receiver_id, amount) ==
    IF neg_overflows(amount) /\ overflow_checks THEN Ret(b, "Panic")
    ELSE LET debit == update_account_balance_by_amount(b, sender_id, neg_i64(amount))
         IN IF debit.res # "Ok" THEN debit
            ELSE update_account_balance_by_amount(debit.bank, receiver_id, as_i64(amount))

\* do_transfer looking the receiver up before it debits the sender
do_transfer_receiver_first(b, sender_id, receiver_id, amount) ==
    IF sender_id = receiver_id THEN Ret(b, "TransferToItself")
    ELSE IF neg_overflows(amount) /\ overflow_checks THEN Ret(b, "Panic")
    ELSE IF amount # 0 /\ receiver_id \notin DOMAIN b.accounts THEN Ret(b, "NotFound")
    ELSE LET debit == update_account_balance_by_amount(b, sender_id, neg_i64(amount))
         IN IF debit.res # "Ok" THEN debit
            ELSE update_account_balance_by_amount(debit.bank, receiver_id, as_i64(amount))

\* Bank::do_transfer: the debit is applied in place, the credit's `?` returns
\* its error with the debit already made
do_transfer(b, sender_id, receiver_id, amount) ==
    IF sender_id = receiver_id THEN Ret(b, "TransferToItself")
    ELSE IF neg_overflows(amount) /\ overflow_checks THEN Ret(b, "Panic")
    ELSE LET debit == update_account_balance_by_amount(b, sender_id, neg_i64(amount))
         IN IF debit.res # "Ok" THEN debit
            ELSE update_account_balance_by_amount(debit.bank, receiver_id, as_i64(amount))

\* The public operations: do_* first, then the log entry on success only.
\* op_id is the OperationID the call returns (0 when it returns an error).
Logged(r, kind, operation_id) ==
    IF r.res = "Ok"
    THEN [bank |-> [r.bank EXCEPT !.operations_log = log(@, kind, operation_id)],
          res |-> "Ok", op_id |-> operation_id]
    ELSE [bank |-> r.bank, res |-> r.res, op_id |-> 0]

\* Bank::register_account
register_account(b, account, operation_id) ==
    Logged(do_register_account(b, account),
           Register(account.id, account.balance), operation_id)

\* deposit logging the kind of a withdraw
deposit_logged_as_withdraw(b, id, amount, operation_id) ==
    Logged(do_deposit(b, id, amount), Withdraw(id, amount), operation_id)

\* Bank::deposit
deposit(b, id, amount, operation_id) ==
    Logged(do_deposit(b, id, amount), Deposit(id, amount), operation_id)

\* Bank::withdraw
withdraw(b, id, amount, operation_id) ==
    Logged(do_withdraw(b, id, amount), Withdraw(id, amount), operation_id)

\* transfer writing its log entry whatever do_transfer returned
transfer_logging_failures(b, sender_id, receiver_id, amount, operation_id) ==
    LET r == do_transfer(b, sender_id, receiver_id, amount)
    IN [bank |-> [r.bank EXCEPT !.operations_log =
                      log(@, Transfer(sender_id, receiver_id, amount), operation_id)],
        res |-> r.res, op_id |-> IF r.res = "Ok" THEN operation_id ELSE 0]

\* Bank::transfer
transfer(b, sender_id, receiver_id, amount, operation_id) ==
    Logged(do_transfer(b, sender_id, receiver_id, amount),
           Transfer(sender_id, receiver_id, amount), operation_id)

\* restore going on with the next operation after a step that failed
RECURSIVE restore_ignoring_errors(_, _, _)
restore_ignoring_errors(b, operations, i) ==
    IF i > Len(operations) THEN Ret(b, "Ok")
    ELSE LET operation == operations[i]
             k == operation.kind
             r == CASE k.type = "Register" ->
                         do_register_account(b, [id |-> k.id, balance |-> k.balance])
                    [] k.type = "Deposit" -> do_deposit(b, k.id, k.amount)
                    [] k.type = "Withdraw" -> do_withdraw(b, k.id, k.amount)
                    [] k.type = "Transfer" ->
                         do_transfer(b, k.sender_id, k.receiver_id, k.amount)
         IN restore_ignoring_errors(
                IF r.res = "Ok"
                THEN [r.bank EXCEPT !.operations_log = log_operation(@, operation)]
                ELSE r.bank,
                operations, i + 1)

\* Bank::restore: replay the operations in order into a default bank, keeping
\* each operation's id; the first failing step ends the replay with its error
RECURSIVE restore_from(_, _, _)
restore_from(b, operations, i) ==
    IF i > Len(operations) THEN Ret(b, "Ok")
    ELSE LET operation == operations[i]
             k == operation.kind
             r == CASE k.type = "Register" ->
                         do_register_account(b, [id |-> k.id, balance |-> k.balance])
                    [] k.type = "Deposit" -> do_deposit(b, k.id, k.amount)
                    [] k.type = "Withdraw" -> do_withdraw(b, k.id, k.amount)
                    [] k.type = "Transfer" ->
                         do_transfer(b, k.sender_id, k.receiver_id, k.amount)
         IN IF r.res # "Ok" THEN r
            ELSE restore_from(
                     [r.bank EXCEPT !.operations_log = log_operation(@, operation)],
                     operations, i + 1)

restore(operations) == restore_from(Bank_default, operations, 1)

\* Bank::get_operation
get_operation(b, operation_id) == get(b.operations_log, operation_id)

\* Bank::get_balance
get_balance(b, id) ==
    IF id \in DOMAIN b.accounts THEN [res |-> "Ok", balance |-> b.accounts[id]]
    ELSE [res |-> "NotFound", balance |-> 0]

----------------------------------------------------------------------------
\* The calls of a single-threaded user of one Bank

NoCall ==
    [op |-> "none", id |-> 0, id2 |-> 0, amount |-> 0, res |-> "none", op_id |-> 0,
     pre |-> Bank_default, restored |-> Bank_default]

\* A Bank is constructed by Bank::default() or by Bank::restore(log): the runs
\* start from the empty bank or from the bank restored from a one-entry log
InitialLogs == {<< >>, <<Operation(1, Register(3, 2))>>}

\* Result<Bank>::Err carries no bank
NoBank == [accounts |-> << >>, operations_log |-> "none"]

\* Repository::default / Context::default
Repository_default == [banks |-> << >>, current_bank |-> 0]

NoReplay == [operations |-> << >>, pc |-> "idle", res |-> "none", bank |-> NoBank,
             replayed |-> 0]

NoRepoCall ==
    [op |-> "none", id |-> 0, id2 |-> 0, amount |-> 0, res |-> "none", result |-> 0,
     op_id |-> 0, listed |-> << >>, pre |-> Repository_default]

\* the parts of the state a specification does not use
ReplayIdle == replay = NoReplay

RepoIdle ==
    /\ variant = "none"
    /\ repo = Repository_default
    /\ account_count = 0
    /\ rlast = NoRepoCall
    /\ pending = << >>

\* linked_list: a NodeRef is the index of a cell; a cell is None or
\* Some(Node { value, next })
NoneCell == [some |-> FALSE, value |-> 0, next |-> 0]

SomeCell(value, next) == [some |-> TRUE, value |-> value, next |-> next]

\* List::new: head and tail are the same empty cell
List_new == [cells |-> <<NoneCell>>, head |-> 1, tail |-> 1, size |-> 0]

\* Node::new_none_ref: a cell holding a node whose next is a fresh empty cell
Node_new_none_ref(cells, value) ==
    LET with_next == Append(cells, NoneCell)
    IN Append(with_next, SomeCell(value, Len(with_next)))

\* Node::new_some_ref
Node_new_some_ref(cells, value, next) == Append(cells, SomeCell(value, next))

\* List::push_back
push_back(l, value) ==
    LET allocated == Node_new_none_ref(l.cells, value)
        new_node_ref == Len(allocated)
        linked == IF allocated[l.tail].some
                  THEN [allocated EXCEPT ![l.tail].next = new_node_ref]
                  ELSE allocated
    IN [cells |-> linked,
        head |-> IF ~linked[l.head].some THEN new_node_ref ELSE l.head,
        tail |-> new_node_ref,
        size |-> l.size + 1]

\* List::push_front
push_front(l, value) ==
    IF l.size = 0 THEN push_back(l, value)
    ELSE LET allocated == Node_new_some_ref(l.cells, value, l.head)
         IN [l EXCEPT !.cells = allocated, !.head = Len(allocated), !.size = @ + 1]

\* `for _ in 0..idx { if let Some(ref node) = *p.clone().borrow() { p = node.next.clone(); } }`
RECURSIVE advance(_, _, _)
advance(cells, p, idx) ==
    IF idx = 0 THEN p
    ELSE advance(cells, IF cells[p].some THEN cells[p].next ELSE p, idx - 1)

\* List::push_after
push_after(l, idx, value) ==
    IF l.size <= idx THEN push_back(l, value)
    ELSE LET p == advance(l.cells, l.head, idx)
         IN IF l.cells[p].some
            THEN LET allocated == Node_new_some_ref(l.cells, value, l.cells[p].next)
                 IN [l EXCEPT !.cells = [allocated EXCEPT ![p].next = Len(allocated)],
                              !.size = @ + 1]
            ELSE [l EXCEPT !.size = @ + 1]

\* List::set
set(l, idx, value) ==
    IF l.size <= idx THEN l
    ELSE LET p == advance(l.cells, l.head, idx)
         IN IF l.cells[p].some THEN [l EXCEPT !.cells[p].value = value] ELSE l

\* ListIterator::next, repeated until None
RECURSIVE iterate(_, _)
iterate(cells, cur) ==
    IF cells[cur].some THEN <<cells[cur].value>> \o iterate(cells, cells[cur].next)
    ELSE << >>

\* List::to_vec
to_vec(l) == iterate(l.cells, l.head)

\* the reference sequence: set replaces the value at position idx
reference_set(seq, idx, value) ==
    IF idx >= Len(seq) THEN seq ELSE [seq EXCEPT ![idx + 1] = value]

\* the reference sequence: push_after inserts value immediately after
\* position idx, or appends it when idx >= size
reference_push_after(seq, idx, value) ==
    IF idx >= Len(seq) THEN Append(seq, value)
    ELSE SubSeq(seq, 1, idx + 1) \o <<value>> \o SubSeq(seq, idx + 2, Len(seq))

ListIdle ==
    /\ list = List_new
    /\ reference = << >>

BankIdle ==
    /\ bank = Bank_default
    /\ last = NoCall
    /\ accepted = << >>

ActorIdle ==
    /\ channel = << >>
    /\ sessions = << >>
    /\ actor = [pc |-> "none"]
    /\ history = << >>

Init ==
    /\ ListIdle
    /\ ActorIdle
    /\ ReplayIdle
    /\ RepoIdle
    /\ overflow_checks \in BOOLEAN
    /\ \E operations \in InitialLogs :
          /\ bank = restore(operations).bank
          /\ uuid_count = Len(operations)
          /\ accepted = [i \in 1..Len(operations) |-> operations[i].kind]
    /\ panicked = FALSE
    /\ steps = 0
    /\ last = NoCall

CanCall == ~panicked /\ steps < MaxSteps

\* the state after a call that returned r (or panicked)
Returned(op, id, id2, amount, kind, r) ==
    /\ bank' = r.bank
    /\ accepted' = IF r.res = "Ok" THEN Append(accepted, kind) ELSE accepted
    /\ uuid_count' = IF r.res = "Ok" THEN uuid_count + 1 ELSE uuid_count
    /\ panicked' = (r.res = "Panic")
    /\ steps' = steps + 1
    /\ last' = [op |-> op, id |-> id, id2 |-> id2, amount |-> amount, res |-> r.res,
                op_id |-> r.op_id, pre |-> bank, restored |-> Bank_default]
    /\ UNCHANGED <<overflow_checks, replayVars, repoVars, actorVars, listVars>>

RegisterAccount ==
    /\ CanCall
    /\ \E id \in AccountIDs, balance \in Balances :
          Returned("register_account", id, 0, balance, Register(id, balance),
                   register_account(bank, [id |-> id, balance |-> balance],
                                    uuid_count + 1))

DepositCall ==
    /\ CanCall
    /\ \E id \in AccountIDs, amount \in Amounts :
          Returned("deposit", id, 0, amount, Deposit(id, amount),
                   deposit(bank, id, amount, uuid_count + 1))

WithdrawCall ==
    /\ CanCall
    /\ \E id \in AccountIDs, amount \in Amounts :
          Returned("withdraw", id, 0, amount, Withdraw(id, amount),
                   withdraw(bank, id, amount, uuid_count + 1))

TransferCall ==
    /\ CanCall
    /\ \E sender_id \in AccountIDs, receiver_id \in AccountIDs, amount \in Amounts :
          Returned("transfer", sender_id, receiver_id, amount,
                   Transfer(sender_id, receiver_id, amount),
                   transfer(bank, sender_id, receiver_id, amount, uuid_count + 1))

\* let bank2 = Bank::restore(bank.get_all_operations())
RestoreCall ==
    /\ CanCall
    /\ LET r == restore(get_all_operations(bank.operations_log))
       IN /\ last' = [op |-> "restore", id |-> 0, id2 |-> 0, amount |-> 0,
                      res |-> r.res, op_id |-> 0, pre |-> bank,
                      restored |-> IF r.res = "Ok" THEN r.bank ELSE Bank_default]
          /\ panicked' = (r.res = "Panic")
    /\ steps' = steps + 1
    /\ UNCHANGED <<bank, uuid_count, overflow_checks, accepted, replayVars, repoVars,
                   actorVars, listVars>>

Next ==
    \/ RegisterAccount
    \/ DepositCall
    \/ WithdrawCall
    \/ TransferCall
    \/ RestoreCall

Spec == Init /\ [][Next]_vars

----------------------------------------------------------------------------
\* Bank::restore applied to an arbitrary operation sequence

ReplayIDs == {1, 2}
ReplayAmounts == {0, 1}

ReplayKinds ==
    {Register(id, balance) : id \in ReplayIDs, balance \in ReplayAmounts}
    \cup {Deposit(id, amount) : id \in ReplayIDs, amount \in ReplayAmounts}
    \cup {Withdraw(id, amount) : id \in ReplayIDs, amount \in ReplayAmounts}
    \cup {Transfer(s, r, amount) : s \in ReplayIDs, r \in ReplayIDs,
                                    amount \in ReplayAmounts}

\* the sequences of n operations, the i-th with OperationID i
ReplayLogs(n) ==
    {[i \in 1..n |-> Operation(i, kinds[i])] : kinds \in [1..n -> ReplayKinds]}

ReplayInit ==
    /\ ListIdle
    /\ ActorIdle
    /\ BankIdle
    /\ RepoIdle
    /\ overflow_checks \in BOOLEAN
    /\ uuid_count = 0
    /\ panicked = FALSE
    /\ steps = 0
    /\ \E n \in 0..MaxReplayLen : \E operations \in ReplayLogs(n) :
          replay = [NoReplay EXCEPT !.operations = operations, !.pc = "input"]

\* let result = Bank::restore(operations.iter()): Ok(bank), or Err(e) and the
\* bank built so far is dropped
ReplayCall ==
    /\ replay.pc = "input"
    /\ LET r == restore(replay.operations)
       IN /\ replay' = [replay EXCEPT
                           !.pc = "done",
                           !.res = r.res,
                           !.bank = IF r.res = "Ok" THEN r.bank ELSE NoBank,
                           !.replayed = Len(r.bank.operations_log.operations)]
          /\ panicked' = (r.res = "Panic")
    /\ UNCHANGED <<uuid_count, overflow_checks, steps, bankVars, repoVars, actorVars,
                   listVars>>

ReplayNext == ReplayCall

SpecRestore == ReplayInit /\ [][ReplayNext]_vars

----------------------------------------------------------------------------
\* Repository: the banks of a server and the current one.
\* bank_async and bank_channel keep it in struct Repository, bank_srv_cl in
\* struct Context behind a lock, with the handlers doing the repository's work.

RepoRet(r, res, result, op_id) ==
    [repo |-> r, res |-> res, result |-> result, op_id |-> op_id]

\* banks that share their state: the outcome br of a Bank command shows in
\* every bank that was equal to the current one
WithBank_shared(r, br) ==
    RepoRet([r EXCEPT !.banks = [k \in 1..Len(r.banks) |->
                                    IF r.banks[k] = r.banks[r.current_bank + 1]
                                    THEN br.bank ELSE r.banks[k]]],
            br.res, 0, br.op_id)

\* the current bank replaced by the outcome br of a Bank command
WithBank(r, br) ==
    RepoRet([r EXCEPT !.banks[r.current_bank + 1] = br.bank], br.res, 0, br.op_id)

\* Repository::current_bank_id
current_bank_id(r) == IF Len(r.banks) = 0 THEN 0 ELSE r.current_bank + 1

\* new_bank leaving the current bank as it was
new_bank_keeping_current(r) ==
    RepoRet([r EXCEPT !.banks = Append(@, Bank_default)], "Ok", r.current_bank + 1, 0)

\* Repository::new_bank
new_bank(r) ==
    LET banks == Append(r.banks, Bank_default)
        current_bank == Len(banks) - 1
    IN RepoRet([banks |-> banks, current_bank |-> current_bank], "Ok",
               current_bank + 1, 0)

\* change_bank storing the 1-based id as the index
change_bank_one_based(r, id) ==
    IF id < 1 \/ id > Len(r.banks) THEN RepoRet(r, "InvalidBankId", 0, 0)
    ELSE RepoRet([r EXCEPT !.current_bank = id], "Ok", 0, 0)

\* change_bank without the range check (id 0 wraps to the largest index)
change_bank_unchecked(r, id) ==
    RepoRet([r EXCEPT !.current_bank = IF id = 0 THEN MaxU ELSE id - 1], "Ok", 0, 0)

\* Repository::change_bank
change_bank(r, id) ==
    IF id < 1 \/ id > Len(r.banks) THEN RepoRet(r, "InvalidBankId", 0, 0)
    ELSE RepoRet([r EXCEPT !.current_bank = id - 1], "Ok", 0, 0)

\* the bank restored from src_bank's log pushed and made current, or the error
Restored(r, src_bank, result) ==
    LET restored == restore(get_all_operations(src_bank.operations_log))
    IN IF restored.res = "Ok"
       THEN LET banks == Append(r.banks, restored.bank)
            IN RepoRet([banks |-> banks, current_bank |-> Len(banks) - 1], "Ok",
                       result, 0)
       ELSE RepoRet(r, restored.res, 0, 0)

\* bank_async Repository::restore_bank: the source is bank id
restore_bank(r, id) ==
    IF id < 1 \/ id > Len(r.banks) THEN RepoRet(r, "InvalidBankId", 0, 0)
    ELSE Restored(r, r.banks[(id - 1) + 1], 0)

\* bank_channel Repository::restore_bank: the source is the current bank
channel_restore_bank(r, id) ==
    IF id < 1 \/ id > Len(r.banks) THEN RepoRet(r, "InvalidBankId", 0, 0)
    ELSE LET current_bank == r.current_bank
         IN Restored(r, r.banks[current_bank + 1], 0)

\* if self.banks.is_empty() { self.new_bank(); }
NonEmpty(r) == IF Len(r.banks) = 0 THEN new_bank(r).repo ELSE r

\* &mut self.banks[self.current_bank]
CurrentBank(r) == r.banks[r.current_bank + 1]

\* the index self.current_bank is out of bounds
NoCurrentBank(r) == r.current_bank + 1 > Len(r.banks)

\* bank_srv_cl handle_new_bank, handle_change_bank and handle_restore_bank:
\* two critical sections, the check of the id under the read lock and the
\* change under the write lock; other threads may run between the two.

\* a handler that does not check the id
read_valid_always(r, id) == TRUE

\* the check under the read lock: not (id < 1 || id > context.banks.len())
read_valid(r, id) == ~(id < 1 \/ id > Len(r.banks))

\* handle_change_bank under the write lock: the reply's Result is the new
\* current bank, 1-based. The reply is written first: when writer.write_all
\* fails (write_ok is FALSE) the handler returns the error and current_bank
\* is not changed
write_change_bank(r, id, write_ok) ==
    IF write_ok THEN RepoRet([r EXCEPT !.current_bank = id - 1], "Ok", id, 0)
    ELSE RepoRet(r, "WriteFailed", 0, 0)

\* handle_restore_bank under the write lock: the source is banks[current_bank]
\* and the reply's Result is current_bank + 2. The reply is written before
\* the restored bank is pushed: when writer.write_all fails the handler
\* returns the error and no bank is pushed
write_restore_bank(r, write_ok) ==
    IF NoCurrentBank(r) THEN RepoRet(r, "Panic", 0, 0)
    ELSE LET ret == Restored(r, r.banks[r.current_bank + 1], r.current_bank + 2)
         IN IF ret.res = "Panic" \/ write_ok THEN ret
            ELSE RepoRet(r, "WriteFailed", 0, 0)

\* handle_new_bank under the write lock
write_new_bank(r) == new_bank(r)

\* Repository::register_account (bank_async, bank_channel) and
\* handle_register_account (bank_srv_cl); account is Account::new(balance)
repository_register_account(r, account, operation_id) ==
    LET r1 == NonEmpty(r)
        br == register_account(CurrentBank(r1), account, operation_id)
    IN [WithBank(r1, br) EXCEPT !.result = IF br.res = "Ok" THEN account.id ELSE 0]

\* withdraw on an empty repository returning NotFound without creating a bank
repository_withdraw_creating_nothing(r, id, amount, operation_id) ==
    IF Len(r.banks) = 0 THEN RepoRet(r, "NotFound", 0, 0)
    ELSE WithBank(r, withdraw(CurrentBank(r), id, amount, operation_id))

\* bank_async Repository::deposit, withdraw, transfer
repository_deposit(r, id, amount, operation_id) ==
    LET r1 == NonEmpty(r)
    IN WithBank(r1, deposit(CurrentBank(r1), id, amount, operation_id))

repository_withdraw(r, id, amount, operation_id) ==
    LET r1 == NonEmpty(r)
    IN WithBank(r1, withdraw(CurrentBank(r1), id, amount, operation_id))

repository_transfer(r, sender_id, receiver_id, amount, operation_id) ==
    LET r1 == NonEmpty(r)
    IN WithBank(r1, transfer(CurrentBank(r1), sender_id, receiver_id, amount,
                             operation_id))

\* bank_channel Repository::deposit, withdraw, transfer and bank_srv_cl
\* handle_deposit, handle_withdraw, handle_transfer: self.banks[self.current_bank]
\* without a check, an index out of bounds on a repository with no bank
indexed_deposit(r, id, amount, operation_id) ==
    IF NoCurrentBank(r) THEN RepoRet(r, "Panic", 0, 0)
    ELSE WithBank(r, deposit(CurrentBank(r), id, amount, operation_id))

indexed_withdraw(r, id, amount, operation_id) ==
    IF NoCurrentBank(r) THEN RepoRet(r, "Panic", 0, 0)
    ELSE WithBank(r, withdraw(CurrentBank(r), id, amount, operation_id))

indexed_transfer(r, sender_id, receiver_id, amount, operation_id) ==
    IF NoCurrentBank(r) THEN RepoRet(r, "Panic", 0, 0)
    ELSE WithBank(r, transfer(CurrentBank(r), sender_id, receiver_id, amount,
                              operation_id))

\* a query's outcome: the repository, the status, the value, the operations listed
Queried(r, res, result, listed) ==
    [repo |-> r, res |-> res, result |-> result, op_id |-> 0, listed |-> listed]

\* bank_async Repository::get_balance (&mut self: creates the first bank)
repository_get_balance(r, id) ==
    LET r1 == NonEmpty(r)
        q == get_balance(CurrentBank(r1), id)
    IN Queried(r1, q.res, q.balance, << >>)

\* bank_async Repository::get_account_operations, get_all_operations
repository_get_account_operations(r, id) ==
    IF Len(r.banks) = 0 THEN Queried(r, "Ok", 0, << >>)
    ELSE Queried(r, "Ok", 0, get_account_operations(CurrentBank(r).operations_log, id))

repository_get_all_operations(r) ==
    IF Len(r.banks) = 0 THEN Queried(r, "Ok", 0, << >>)
    ELSE Queried(r, "Ok", 0, get_all_operations(CurrentBank(r).operations_log))

\* bank_channel Repository::get_balance, get_account_operations,
\* get_all_operations and bank_srv_cl handle_get_balance,
\* handle_list_account_operations, handle_list_all_operations: an unchecked index
indexed_get_balance(r, id) ==
    IF NoCurrentBank(r) THEN Queried(r, "Panic", 0, << >>)
    ELSE LET q == get_balance(CurrentBank(r), id)
         IN Queried(r, q.res, q.balance, << >>)

indexed_get_account_operations(r, id) ==
    IF NoCurrentBank(r) THEN Queried(r, "Panic", 0, << >>)
    ELSE Queried(r, "Ok", 0, get_account_operations(CurrentBank(r).operations_log, id))

indexed_get_all_operations(r) ==
    IF NoCurrentBank(r) THEN Queried(r, "Panic", 0, << >>)
    ELSE Queried(r, "Ok", 0, get_all_operations(CurrentBank(r).operations_log))

\* which_bank reporting the current bank id without creating a bank
which_bank_creating_nothing(r) == RepoRet(r, "Ok", current_bank_id(r), 0)

\* bank_async actor handle_which_bank
actor_handle_which_bank(r) ==
    LET r1 == IF current_bank_id(r) = 0 THEN new_bank(r).repo ELSE r
    IN RepoRet(r1, "Ok", current_bank_id(r1), 0)

\* bank_srv_cl handle_which_bank
handle_which_bank(r) ==
    LET r1 == IF Len(r.banks) = 0 THEN [r EXCEPT !.banks = Append(@, Bank_default)]
              ELSE r
    IN RepoRet(r1, "Ok", r1.current_bank + 1, 0)

\* The calls on a repository

Variants == {"bank_async", "bank_channel", "bank_srv_cl"}

RepoBalances == {0, 2}
RepoAmounts == {0, 1}

\* bank ids a client may name: 0, the existing banks, one past the last
BankIDs == 0..(Len(repo.banks) + 1)

\* account ids a client may name: the generated ones and 0, one never generated
KnownAccountIDs == 0..account_count

Lazy == variant = "bank_async"

RepoInit ==
    /\ ListIdle
    /\ ActorIdle
    /\ BankIdle
    /\ ReplayIdle
    /\ variant \in Variants
    /\ repo = Repository_default
    /\ account_count = 0
    /\ rlast = NoRepoCall
    /\ pending = << >>
    /\ overflow_checks \in BOOLEAN
    /\ uuid_count = 0
    /\ panicked = FALSE
    /\ steps = 0

RepoCanCall == variant \in Variants /\ ~panicked /\ steps < MaxRepoSteps

\* the bank_srv_cl handlers that hold the read lock only
ReadLocked == {"get_balance", "list_account_operations", "list_all_operations"}

\* a panic that ends the service for every connection: in the thread that owns
\* the Repository, or in bank_srv_cl while the write lock is held (the lock is
\* poisoned); a panic under the read lock ends only the connection's thread
Fatal(op, res) ==
    res = "Panic" /\ ~(variant = "bank_srv_cl" /\ op \in ReadLocked)

\* the state after a repository call that returned ret (or panicked)
RepoEffect(op, id, id2, amount, ret) ==
    /\ repo' = ret.repo
    /\ uuid_count' = IF ret.op_id # 0 THEN uuid_count + 1 ELSE uuid_count
    /\ panicked' = Fatal(op, ret.res)
    /\ rlast' = [op |-> op, id |-> id, id2 |-> id2, amount |-> amount,
                 res |-> ret.res, result |-> ret.result, op_id |-> ret.op_id,
                 listed |-> IF "listed" \in DOMAIN ret THEN ret.listed ELSE << >>,
                 pre |-> repo]
    /\ UNCHANGED <<variant, overflow_checks, bankVars, replayVars, actorVars, listVars>>

\* a call that ran to its end in one step
RepoReturned(op, id, id2, amount, ret) ==
    /\ RepoEffect(op, id, id2, amount, ret)
    /\ steps' = steps + 1
    /\ UNCHANGED pending

\* bank_srv_cl handle_new_bank, handle_change_bank and handle_restore_bank up
\* to drop(context): under the read lock the id is checked (new_bank reads
\* the previous bank id); an invalid id is answered and the handler is done,
\* otherwise the handler goes on to lock_context.write()
ReadSection(op, id) ==
    IF op = "new_bank" \/ read_valid(repo, id)
    THEN /\ pending' = Append(pending, [op |-> op, id |-> id])
         /\ steps' = steps + 1
         /\ UNCHANGED <<repo, uuid_count, panicked, rlast, variant, overflow_checks,
                        bankVars, replayVars, actorVars, listVars>>
    ELSE RepoReturned(op, id, 0, 0, RepoRet(repo, "InvalidBankId", 0, 0))

\* the sequence without its i-th element
Without(seq, i) == SubSeq(seq, 1, i - 1) \o SubSeq(seq, i + 1, Len(seq))

\* bank_srv_cl: one of the waiting handlers gets the write lock and runs its
\* second critical section on the repository as it is by then
WriteSection ==
    /\ variant = "bank_srv_cl"
    /\ ~panicked
    /\ \E i \in 1..Len(pending), write_ok \in BOOLEAN :
          LET call == pending[i]
          IN /\ RepoEffect(call.op, call.id, 0, 0,
                           CASE call.op = "new_bank" -> write_new_bank(repo)
                             [] call.op = "change_bank" ->
                                  write_change_bank(repo, call.id, write_ok)
                             [] OTHER -> write_restore_bank(repo, write_ok))
             /\ pending' = Without(pending, i)
    /\ UNCHANGED <<steps, account_count>>

NewBank ==
    /\ RepoCanCall
    /\ IF variant = "bank_srv_cl" THEN ReadSection("new_bank", 0)
       ELSE RepoReturned("new_bank", 0, 0, 0, new_bank(repo))
    /\ UNCHANGED account_count

ChangeBank ==
    /\ RepoCanCall
    /\ \E id \in BankIDs :
          IF variant = "bank_srv_cl" THEN ReadSection("change_bank", id)
          ELSE RepoReturned("change_bank", id, 0, 0, change_bank(repo, id))
    /\ UNCHANGED account_count

RestoreBank ==
    /\ RepoCanCall
    /\ \E id \in BankIDs :
          CASE variant = "bank_async" ->
                 RepoReturned("restore_bank", id, 0, 0, restore_bank(repo, id))
            [] variant = "bank_channel" ->
                 RepoReturned("restore_bank", id, 0, 0, channel_restore_bank(repo, id))
            [] variant = "bank_srv_cl" -> ReadSection("restore_bank", id)
    /\ UNCHANGED account_count

RepoRegisterAccount ==
    /\ RepoCanCall
    /\ \E balance \in RepoBalances :
          RepoReturned("register_account", 0, 0, balance,
                       repository_register_account(
                           repo, [id |-> account_count + 1, balance |-> balance],
                           uuid_count + 1))
    /\ account_count' = account_count + 1

RepoDeposit ==
    /\ RepoCanCall
    /\ \E id \in KnownAccountIDs, amount \in RepoAmounts :
          RepoReturned("deposit", id, 0, amount,
                       IF Lazy THEN repository_deposit(repo, id, amount, uuid_count + 1)
                       ELSE indexed_deposit(repo, id, amount, uuid_count + 1))
    /\ UNCHANGED account_count

RepoWithdraw ==
    /\ RepoCanCall
    /\ \E id \in KnownAccountIDs, amount \in RepoAmounts :
          RepoReturned("withdraw", id, 0, amount,
                       IF Lazy THEN repository_withdraw(repo, id, amount, uuid_count + 1)
                       ELSE indexed_withdraw(repo, id, amount, uuid_count + 1))
    /\ UNCHANGED account_count

RepoTransfer ==
    /\ RepoCanCall
    /\ \E sender_id \in KnownAccountIDs, receiver_id \in KnownAccountIDs,
           amount \in RepoAmounts :
          RepoReturned("transfer", sender_id, receiver_id, amount,
                       IF Lazy
                       THEN repository_transfer(repo, sender_id, receiver_id, amount,
                                                uuid_count + 1)
                       ELSE indexed_transfer(repo, sender_id, receiver_id, amount,
                                             uuid_count + 1))
    /\ UNCHANGED account_count

RepoGetBalance ==
    /\ RepoCanCall
    /\ \E id \in KnownAccountIDs :
          RepoReturned("get_balance", id, 0, 0,
                       IF Lazy THEN repository_get_balance(repo, id)
                       ELSE indexed_get_balance(repo, id))
    /\ UNCHANGED account_count

RepoListAccountOperations ==
    /\ RepoCanCall
    /\ \E id \in KnownAccountIDs :
          RepoReturned("list_account_operations", id, 0, 0,
                       IF Lazy THEN repository_get_account_operations(repo, id)
                       ELSE indexed_get_account_operations(repo, id))
    /\ UNCHANGED account_count

RepoListAllOperations ==
    /\ RepoCanCall
    /\ RepoReturned("list_all_operations", 0, 0, 0,
                    IF Lazy THEN repository_get_all_operations(repo)
                    ELSE indexed_get_all_operations(repo))
    /\ UNCHANGED account_count

\* which_bank: handled by the actor in bank_async, by the handler in bank_srv_cl
WhichBank ==
    /\ RepoCanCall
    /\ variant \in {"bank_async", "bank_srv_cl"}
    /\ RepoReturned("which_bank", 0, 0, 0,
                    IF variant = "bank_async" THEN actor_handle_which_bank(repo)
                    ELSE handle_which_bank(repo))
    /\ UNCHANGED account_count

RepoNext ==
    \/ NewBank
    \/ WriteSection
    \/ ChangeBank
    \/ RestoreBank
    \/ RepoRegisterAccount
    \/ RepoDeposit
    \/ RepoWithdraw
    \/ RepoTransfer
    \/ RepoGetBalance
    \/ RepoListAccountOperations
    \/ RepoListAllOperations
    \/ WhichBank

SpecRepo == RepoInit /\ [][RepoNext]_vars

----------------------------------------------------------------------------
\* bank_async: the actor that owns the Repository, and the session handlers

\* a reply text, by its fields: "Bank: ..", "OpID: ..", "Status: ..", "Type: ..",
\* "Result: ..", "Error: .." and the operations listed under "Result:"
Response(bank_id, op_id, status, type, result, error, listed) ==
    [bank |-> bank_id, op_id |-> op_id, status |-> status, type |-> type,
     result |-> result, error |-> error, listed |-> listed]

NoResponse == Response(0, 0, "none", "", 0, "", << >>)

OkResponse(bank_id, op_id, result) == Response(bank_id, op_id, "ok", "", result, "", << >>)

\* "Status: error\nType: bank\nError: {}"
BankErrorResponse(bank_id, error) == Response(bank_id, 0, "error", "bank", 0, error, << >>)

\* "Status: fail\nResult: {}"
FailResponse(bank_id, error) == Response(bank_id, 0, "fail", "", 0, error, << >>)

\* the repository and the id counters after a command, and the response; the
\* counters advance by one when the command generated an id
Handled(ret, response, new_account) ==
    [repo |-> ret.repo, res |-> ret.res, response |-> response,
     new_account |-> new_account, new_operation |-> ret.op_id # 0]

\* actor handle_new_bank
actor_handle_new_bank(r) ==
    LET ret == new_bank(r)
        bank_id == ret.result
    IN Handled(ret, OkResponse(bank_id - 1, 0, bank_id), FALSE)

\* actor handle_change_bank
actor_handle_change_bank(r, id) ==
    LET current == current_bank_id(r)
        ret == change_bank(r, id)
    IN Handled(ret,
               IF ret.res = "Ok" THEN OkResponse(current, 0, id)
               ELSE BankErrorResponse(current, "invalid bank id"),
               FALSE)

\* actor handle_restore_bank
actor_handle_restore_bank(r, id) ==
    LET current_bank == current_bank_id(r)
        ret == restore_bank(r, id)
    IN Handled(ret,
               IF ret.res = "Ok" THEN OkResponse(current_bank, 0, current_bank_id(ret.repo))
               ELSE IF ret.res = "InvalidBankId"
                    THEN BankErrorResponse(current_bank, "invalid bank id")
               ELSE BankErrorResponse(current_bank, ret.res),
               FALSE)

\* actor handle_register_account
actor_handle_register_account(r, balance, account_id, operation_id) ==
    LET ret == repository_register_account(
                   r, [id |-> account_id, balance |-> balance], operation_id)
        bank_id == current_bank_id(ret.repo)
    IN Handled(ret,
               IF ret.res = "Ok" THEN OkResponse(bank_id, ret.op_id, ret.result)
               ELSE BankErrorResponse(bank_id, ret.res),
               TRUE)

\* actor handle_get_balance
actor_handle_get_balance(r, id) ==
    LET ret == repository_get_balance(r, id)
        bank_id == current_bank_id(ret.repo)
    IN Handled(ret,
               IF ret.res = "Ok" THEN OkResponse(bank_id, 0, ret.result)
               ELSE FailResponse(bank_id, ret.res),
               FALSE)

\* a handler with a selector of its own that still points at the first bank
actor_handle_deposit_in_first_bank(r, id, amount, operation_id) ==
    LET r1 == NonEmpty(r)
        br == deposit(r1.banks[1], id, amount, operation_id)
        ret == RepoRet([r1 EXCEPT !.banks[1] = br.bank], br.res, 0, br.op_id)
    IN Handled(ret,
               IF ret.res = "Ok" THEN OkResponse(1, ret.op_id, 0)
               ELSE FailResponse(1, ret.res),
               FALSE)

\* actor handle_deposit
actor_handle_deposit(r, id, amount, operation_id) ==
    LET ret == repository_deposit(r, id, amount, operation_id)
        bank_id == current_bank_id(ret.repo)
    IN Handled(ret,
               IF ret.res = "Ok" THEN OkResponse(bank_id, ret.op_id, 0)
               ELSE FailResponse(bank_id, ret.res),
               FALSE)

\* actor handle_withdraw
actor_handle_withdraw(r, id, amount, operation_id) ==
    LET ret == repository_withdraw(r, id, amount, operation_id)
        bank_id == current_bank_id(ret.repo)
    IN Handled(ret,
               IF ret.res = "Ok" THEN OkResponse(bank_id, ret.op_id, 0)
               ELSE BankErrorResponse(bank_id, ret.res),
               FALSE)

\* actor handle_transfer
actor_handle_transfer(r, sender, receiver, amount, operation_id) ==
    LET ret == repository_transfer(r, sender, receiver, amount, operation_id)
        bank_id == current_bank_id(ret.repo)
    IN Handled(ret,
               IF ret.res = "Ok" THEN OkResponse(bank_id, ret.op_id, 0)
               ELSE BankErrorResponse(bank_id, ret.res),
               FALSE)

\* actor handle_list_account_operations, handle_list_all_operations
actor_handle_list_account_operations(r, id) ==
    LET ret == repository_get_account_operations(r, id)
    IN Handled(ret, [OkResponse(current_bank_id(r), 0, 0) EXCEPT !.listed = ret.listed],
               FALSE)

actor_handle_list_all_operations(r) ==
    LET ret == repository_get_all_operations(r)
    IN Handled(ret, [OkResponse(current_bank_id(r), 0, 0) EXCEPT !.listed = ret.listed],
               FALSE)

\* a Command, by its variant and fields
Command_of(type, id, id2, amount) ==
    [type |-> type, id |-> id, id2 |-> id2, amount |-> amount]

\* actor handle_command; account_id and operation_id are the ids that
\* Account::new and OperationID::new would generate next
actor_handle_command(r, command, account_id, operation_id) ==
    CASE command.type = "NewBank" -> actor_handle_new_bank(r)
      [] command.type = "ChangeBank" -> actor_handle_change_bank(r, command.id)
      [] command.type = "RestoreBank" -> actor_handle_restore_bank(r, command.id)
      [] command.type = "WhichBank" ->
           LET ret == actor_handle_which_bank(r)
           IN Handled(ret, OkResponse(ret.result, 0, ret.result), FALSE)
      [] command.type = "RegisterAccount" ->
           actor_handle_register_account(r, command.amount, account_id, operation_id)
      [] command.type = "GetBalance" -> actor_handle_get_balance(r, command.id)
      [] command.type = "Deposit" ->
           actor_handle_deposit(r, command.id, command.amount, operation_id)
      [] command.type = "Withdraw" ->
           actor_handle_withdraw(r, command.id, command.amount, operation_id)
      [] command.type = "Transfer" ->
           actor_handle_transfer(r, command.id, command.id2, command.amount, operation_id)
      [] command.type = "ListAccountOperations" ->
           actor_handle_list_account_operations(r, command.id)
      [] command.type = "ListAllOperations" -> actor_handle_list_all_operations(r)
      [] OTHER ->
           Handled(RepoRet(r, "Ok", 0, 0),
                   Response(current_bank_id(r), 0, "error", "repository", 0,
                            "unknown command", << >>),
                   FALSE)

\* The connections, each served by one session handler task
Sessions == {1, 2}

\* the commands the client of connection s sends: both clients register
\* accounts and deposit to account 1; the first also opens banks, the second
\* also reads the balance of account 1
SessionCommands(s) ==
    {Command_of("RegisterAccount", 0, 0, 2),
     Command_of("Deposit", 1, 0, 1)}
    \cup (IF s = 1 THEN {Command_of("NewBank", 0, 0, 0)}
                   ELSE {Command_of("GetBalance", 1, 0, 0)})

\* (Command, Sender<String>): the command, and the oneshot sender of the n-th
\* call of session from
Message(command, from, n) == [command |-> command, from |-> from, n |-> n]

Tag(message) == <<message.from, message.n>>

\* the oneshot channel of a call: nothing sent yet, or the response sent
EmptyOneshot == [sent |-> FALSE, response |-> NoResponse]

NoHistory ==
    [submitted |-> [s \in Sessions |-> << >>],
     arrived |-> << >>,
     executed |-> << >>,
     executing |-> {},
     written |-> [s \in Sessions |-> << >>],
     discarded |-> << >>,
     dropped |-> << >>,
     errors |-> [s \in Sessions |-> << >>],
     local |-> [s \in Sessions |-> << >>]]

\* sender.send overwriting what is queued
send_overwriting(queue, message) == <<message>>

\* UnboundedSender::send
send(queue, message) == Append(queue, message)

\* recv taking the newest message
recv_newest(queue) ==
    [message |-> queue[Len(queue)], rest |-> SubSeq(queue, 1, Len(queue) - 1)]

\* UnboundedReceiver::recv on a non-empty channel
recv(queue) == [message |-> Head(queue), rest |-> Tail(queue)]

\* a handler reading the next line while its command is still outstanding
may_submit_always(session) == TRUE

\* handle: the handler is at read_line, not suspended in handle_command
may_submit(session) == session.pc = "read"

\* an actor receiving the next command before the response is sent
actor_at_recv_always(a) == TRUE

\* repository_actor is at command_receiver.recv().await
actor_at_recv(a) == a.pc = "recv"

\* response_sender of a message: the oneshot of the session that sent it
reply_to(message) == message.from

\* response_sender.send losing the response
oneshot_send_nothing(oneshot, response) == oneshot

\* oneshot Sender::send
oneshot_send(oneshot, response) == [sent |-> TRUE, response |-> response]

\* response_sender.send: Err(response) when the receiver has been dropped
send_result(session) == IF session.pc = "gone" THEN "Err" ELSE "Ok"

\* an actor that returns from its loop when a response cannot be delivered
after_send_stopping(result) == IF result = "Err" THEN "stopped" ELSE "recv"

\* repository_actor after response_sender.send: the error is printed and the
\* loop goes on
after_send(result) == "recv"

\* the state after main has created the channel; receiver is "recv" when the
\* actor task holds the receiver, "closed" when the receiver has been dropped
ActorInitWith(receiver) ==
    /\ ListIdle
    /\ BankIdle
    /\ ReplayIdle
    /\ variant = "bank_async"
    /\ repo = Repository_default
    /\ account_count = 0
    /\ rlast = NoRepoCall
    /\ pending = << >>
    /\ overflow_checks = TRUE   \* the amounts of SessionCommands reach no overflow
    /\ uuid_count = 0
    /\ panicked = FALSE
    /\ steps = 0
    /\ channel = << >>
    /\ sessions = [s \in Sessions |-> [pc |-> "read", sent |-> 0, oneshot |-> EmptyOneshot]]
    /\ actor = [pc |-> receiver, message |-> Message(Command_of("none", 0, 0, 0), 0, 0),
                response |-> NoResponse]
    /\ history = NoHistory

ActorInit == ActorInitWith("recv")

ActorUnchanged == UNCHANGED <<overflow_checks, panicked, steps, variant, rlast, pending,
                              bankVars, replayVars, listVars>>

\* handle / handle_command of session s: a line is read and parsed, a oneshot
\* channel is created, (command, response_sender) is sent to the actor and the
\* handler suspends on response_receiver
SessionSubmitFrom(s, commands) ==
    /\ variant = "bank_async"
    /\ actor.pc # "closed"
    /\ may_submit(sessions[s])
    /\ sessions[s].sent < MaxCommands
    /\ \E command \in commands :
          LET message == Message(command, s, sessions[s].sent + 1)
          IN /\ channel' = send(channel, message)
             /\ sessions' = [sessions EXCEPT ![s] =
                                [pc |-> "await", sent |-> @.sent + 1,
                                 oneshot |-> EmptyOneshot]]
             /\ history' = [history EXCEPT
                               !.submitted[s] = Append(@, command),
                               !.arrived = Append(@, Tag(message))]
    /\ UNCHANGED <<repo, account_count, uuid_count, actor>>
    /\ ActorUnchanged

SessionSubmit(s) == SessionSubmitFrom(s, SessionCommands(s))

\* the tags of the messages of a queue
RECURSIVE Tags(_)
Tags(queue) == IF queue = << >> THEN << >> ELSE <<Tag(Head(queue))>> \o Tags(Tail(queue))

\* repository_actor: recv returns the next message and handle_command runs on
\* the repository. A panic in handle_command unwinds the actor task: nothing
\* is sent and the response_sender of the message is dropped first; the
\* receiver is dropped later (ActorDropReceiver), and until then sender.send
\* of a session still succeeds
ActorExecute ==
    /\ variant = "bank_async"
    /\ actor_at_recv(actor)
    /\ channel # << >>
    /\ LET received == recv(channel)
           message == received.message
           h == actor_handle_command(repo, message.command, account_count + 1,
                                     uuid_count + 1)
       IN IF h.res = "Panic"
          THEN /\ channel' = received.rest
               /\ repo' = h.repo
               /\ actor' = [actor EXCEPT !.pc = "unwinding"]
               /\ panicked' = TRUE
               /\ history' = [history EXCEPT !.dropped = Append(@, Tag(message))]
               /\ UNCHANGED <<account_count, uuid_count>>
          ELSE /\ channel' = received.rest
               /\ repo' = h.repo
               /\ account_count' = IF h.new_account THEN account_count + 1
                                   ELSE account_count
               /\ uuid_count' = IF h.new_operation THEN uuid_count + 1 ELSE uuid_count
               /\ actor' = [pc |-> "send", message |-> message, response |-> h.response]
               /\ history' = [history EXCEPT
                                 !.executed = Append(@, [from |-> message.from,
                                                         n |-> message.n,
                                                         command |-> message.command,
                                                         response |-> h.response]),
                                 !.executing = @ \cup {Tag(message)}]
               /\ UNCHANGED panicked
    /\ UNCHANGED <<sessions, overflow_checks, steps, variant, rlast, pending,
                   bankVars, replayVars, listVars>>

\* the unwinding actor task drops the receiver: the channel is closed and the
\* queued messages are dropped with their response senders
ActorDropReceiver ==
    /\ variant = "bank_async"
    /\ actor.pc = "unwinding"
    /\ channel' = << >>
    /\ actor' = [actor EXCEPT !.pc = "closed"]
    /\ history' = [history EXCEPT !.dropped = @ \o Tags(channel)]
    /\ UNCHANGED <<repo, account_count, uuid_count, sessions>>
    /\ ActorUnchanged

\* repository_actor: response_sender.send(response), then back to recv
ActorReply ==
    /\ variant = "bank_async"
    /\ actor.pc = "send"
    /\ LET to == reply_to(actor.message)
           result == send_result(sessions[to])
       IN /\ sessions' = IF result = "Err" THEN sessions
                         ELSE [sessions EXCEPT
                                  ![to].oneshot = oneshot_send(@, actor.response)]
          /\ actor' = [actor EXCEPT !.pc = after_send(result)]
          /\ history' = [history EXCEPT
                            !.executing = @ \ {Tag(actor.message)},
                            !.discarded = IF result = "Err"
                                          THEN Append(@, [from |-> actor.message.from,
                                                          n |-> actor.message.n,
                                                          at |-> Len(history.executed),
                                                          response |-> actor.response])
                                          ELSE @]
    /\ UNCHANGED <<repo, account_count, uuid_count, channel>>
    /\ ActorUnchanged

\* handle_command of session s resumes with the response and writes it to the
\* client; the handler goes back to read_line
SessionWrite(s) ==
    /\ variant = "bank_async"
    /\ sessions[s].pc = "await"
    /\ sessions[s].oneshot.sent
    /\ sessions' = [sessions EXCEPT ![s].pc = "read", ![s].oneshot = EmptyOneshot]
    /\ history' = [history EXCEPT !.written[s] = Append(@, sessions[s].oneshot.response)]
    /\ UNCHANGED <<repo, account_count, uuid_count, channel, actor>>
    /\ ActorUnchanged

\* the task of session s ends while it is suspended on response_receiver: the
\* receiver of its oneshot channel is dropped
SessionDisappear(s) ==
    /\ variant = "bank_async"
    /\ sessions[s].pc = "await"
    /\ sessions' = [sessions EXCEPT ![s].pc = "gone", ![s].oneshot = EmptyOneshot]
    /\ UNCHANGED <<repo, account_count, uuid_count, channel, actor, history>>
    /\ ActorUnchanged

ActorNext ==
    \/ \E s \in Sessions : SessionSubmit(s)
    \/ ActorExecute
    \/ ActorReply
    \/ \E s \in Sessions : SessionWrite(s)

SpecActor == ActorInit /\ [][ActorNext]_vars

\* the lines a handler answers itself: quit, help, and a line that
\* parse_command rejects
LocalLines == {"quit", "help", "unparsable"}

\* "Bye bye", the help text, or "Status: error\nType: parse\nError: .."
LocalReply(line) ==
    CASE line = "quit" -> Response(0, 0, "bye", "", 0, "", << >>)
      [] line = "help" -> Response(0, 0, "help", "", 0, "", << >>)
      [] OTHER -> Response(0, 0, "error", "parse", 0, "unknown command", << >>)

\* a handler that also sends the line it answers itself to the actor
forwarded_sending(queue, line, s, n) ==
    Append(queue, Message(Command_of(line, 0, 0, 0), s, n))

\* handle_quit / handle_help / handle_parse_error: nothing is sent
forwarded(queue, line, s, n) == queue

\* handle of session s reads quit, help or a line that does not parse and
\* answers it itself; after quit the handler returns
SessionLocal(s) ==
    /\ variant = "bank_async"
    /\ may_submit(sessions[s])
    /\ sessions[s].sent < MaxCommands
    /\ \E line \in LocalLines :
          /\ channel' = forwarded(channel, line, s, sessions[s].sent + 1)
          /\ sessions' = [sessions EXCEPT
                             ![s].pc = IF line = "quit" THEN "quit" ELSE "read",
                             ![s].sent = @ + 1]
          /\ history' = [history EXCEPT
                            !.local[s] = Append(@, line),
                            !.written[s] = Append(@, LocalReply(line))]
    /\ UNCHANGED <<repo, account_count, uuid_count, actor>>
    /\ ActorUnchanged

\* handle_command of session s when the receiver of the channel is dropped:
\* sender.send returns Err, handle returns the error, main writes the error
\* line and the task ends
SessionSendFails(s) ==
    /\ variant = "bank_async"
    /\ actor.pc = "closed"
    /\ may_submit(sessions[s])
    /\ sessions[s].sent < MaxCommands
    /\ sessions' = [sessions EXCEPT ![s].pc = "failed", ![s].sent = @ + 1]
    /\ history' = [history EXCEPT !.errors[s] = Append(@, "SendError")]
    /\ UNCHANGED <<repo, account_count, uuid_count, channel, actor>>
    /\ ActorUnchanged

\* handle_command of session s resumes with an error: response_receiver.await
\* fails because the response_sender was dropped without a send (the actor
\* task is unwinding or gone and the message is no longer queued); handle
\* returns the error, main writes the error line and the session task ends
SessionRecvFails(s) ==
    /\ variant = "bank_async"
    /\ sessions[s].pc = "await"
    /\ ~sessions[s].oneshot.sent
    /\ actor.pc \in {"unwinding", "closed"}
    /\ \A i \in 1..Len(channel) : channel[i].from # s
    /\ sessions' = [sessions EXCEPT ![s].pc = "failed"]
    /\ history' = [history EXCEPT !.errors[s] = Append(@, "RecvError")]
    /\ UNCHANGED <<repo, account_count, uuid_count, channel, actor>>
    /\ ActorUnchanged

\* commands that reach the overflow of the balance update: an account is
\* registered with the largest balance below 2^63 and 1 is deposited to it
PanicCommands(s) ==
    {Command_of("RegisterAccount", 0, 0, Half - 1),
     Command_of("Deposit", 1, 0, 1)}
    \cup (IF s = 1 THEN {} ELSE {Command_of("GetBalance", 1, 0, 0)})

PanicSubmit(s) == SessionSubmitFrom(s, PanicCommands(s))

\* the actor and the sessions of clients that send commands for the actor,
\* when a command can panic the actor
PanicNext ==
    \/ \E s \in Sessions : PanicSubmit(s)
    \/ ActorExecute
    \/ ActorDropReceiver
    \/ ActorReply
    \/ \E s \in Sessions : SessionWrite(s)
    \/ \E s \in Sessions : SessionRecvFails(s)
    \/ \E s \in Sessions : SessionSendFails(s)

SpecPanic == ActorInit /\ [][PanicNext]_vars

\* the handlers with every kind of line, with and without a running actor
SessionInit == \E receiver \in {"recv", "closed"} : ActorInitWith(receiver)

SessionNext ==
    \/ \E s \in Sessions : SessionSubmit(s)
    \/ \E s \in Sessions : SessionLocal(s)
    \/ \E s \in Sessions : SessionSendFails(s)
    \/ ActorExecute
    \/ ActorReply
    \/ \E s \in Sessions : SessionWrite(s)

SpecSession == SessionInit /\ [][SessionNext]_vars

\* connection 1 selects banks, connection 2 issues ledger commands only
SelectorCommands(s) ==
    IF s = 1
    THEN {Command_of("NewBank", 0, 0, 0),
          Command_of("ChangeBank", 1, 0, 0),
          Command_of("RestoreBank", 1, 0, 0)}
    ELSE {Command_of("RegisterAccount", 0, 0, 2),
          Command_of("Deposit", 1, 0, 1),
          Command_of("GetBalance", 1, 0, 0)}

SelectorSubmit(s) == SessionSubmitFrom(s, SelectorCommands(s))

SelectorNext ==
    \/ \E s \in Sessions : SelectorSubmit(s)
    \/ ActorExecute
    \/ ActorReply
    \/ \E s \in Sessions : SessionWrite(s)

SpecSelector == ActorInit /\ [][SelectorNext]_vars

\* the actor and sessions that may disappear while they wait for a reply
DisconnectNext ==
    \/ \E s \in Sessions : SessionSubmit(s)
    \/ ActorExecute
    \/ ActorReply
    \/ \E s \in Sessions : SessionWrite(s)
    \/ \E s \in Sessions : SessionDisappear(s)

SpecDisconnect == ActorInit /\ [][DisconnectNext]_vars

----------------------------------------------------------------------------
\* bank_srv_cl: one thread per connection, the Context behind an RwLock.
\* A critical section (from lock_context.read() / write() to the drop of the
\* guard) is one step; handle_new_bank, handle_change_bank and
\* handle_restore_bank have two of them.

LockedOps == {"new_bank", "change_bank", "restore_bank"}

IdleThread == [pc |-> "idle", sent |-> 0, op |-> "none", id |-> 0, seen |-> 0]

LockInit ==
    /\ ListIdle
    /\ BankIdle
    /\ ReplayIdle
    /\ variant = "bank_srv_cl"
    /\ repo = Repository_default
    /\ account_count = 0
    /\ rlast = NoRepoCall
    /\ pending = << >>
    /\ overflow_checks = TRUE
    /\ uuid_count = 0
    /\ panicked = FALSE
    /\ steps = 0
    /\ channel = << >>
    /\ sessions = [s \in Sessions |-> IdleThread]
    /\ actor = [pc |-> "none"]
    /\ history = << >>

LockUnchanged == UNCHANGED <<overflow_checks, steps, variant, rlast, pending, channel, actor,
                             history, bankVars, replayVars, listVars>>

\* the first critical section of new_bank, change_bank id or restore_bank id:
\* under the read lock the id is checked (new_bank reads the previous bank
\* id); an invalid id is answered and the handler is done
LockValidate(s) ==
    /\ variant = "bank_srv_cl"
    /\ ~panicked
    /\ sessions[s].pc = "idle"
    /\ sessions[s].sent < MaxCommands
    /\ \E op \in LockedOps, id \in BankIDs :
          /\ op = "new_bank" => id = 0
          /\ sessions' = [sessions EXCEPT ![s] =
                [pc |-> IF op = "new_bank" \/ read_valid(repo, id)
                        THEN "write" ELSE "idle",
                 sent |-> @.sent + 1, op |-> op, id |-> id,
                 seen |-> Len(repo.banks)]]
    /\ UNCHANGED <<repo, account_count, uuid_count, panicked>>
    /\ LockUnchanged

\* the second critical section, under the write lock acquired afterwards
LockAct(s) ==
    /\ variant = "bank_srv_cl"
    /\ ~panicked
    /\ sessions[s].pc = "write"
    /\ \E write_ok \in BOOLEAN :
          LET ret == CASE sessions[s].op = "new_bank" -> write_new_bank(repo)
                       [] sessions[s].op = "change_bank" ->
                            write_change_bank(repo, sessions[s].id, write_ok)
                       [] OTHER -> write_restore_bank(repo, write_ok)
          IN /\ repo' = ret.repo
             /\ panicked' = (ret.res = "Panic")
    /\ sessions' = [sessions EXCEPT ![s].pc = "idle"]
    /\ UNCHANGED <<account_count, uuid_count>>
    /\ LockUnchanged

\* handle_which_bank: one critical section under the write lock
LockWhichBank(s) ==
    /\ variant = "bank_srv_cl"
    /\ ~panicked
    /\ sessions[s].pc = "idle"
    /\ sessions[s].sent < MaxCommands
    /\ repo' = handle_which_bank(repo).repo
    /\ sessions' = [sessions EXCEPT ![s] =
                        [pc |-> "idle", sent |-> @.sent + 1, op |-> "which_bank",
                         id |-> 0, seen |-> Len(repo.banks)]]
    /\ UNCHANGED <<account_count, uuid_count, panicked>>
    /\ LockUnchanged

\* handle_register_account: one critical section under the write lock
LockRegisterAccount(s) ==
    /\ variant = "bank_srv_cl"
    /\ ~panicked
    /\ sessions[s].pc = "idle"
    /\ sessions[s].sent < MaxCommands
    /\ LET ret == repository_register_account(
                      repo, [id |-> account_count + 1, balance |-> 2], uuid_count + 1)
       IN /\ repo' = ret.repo
          /\ uuid_count' = IF ret.op_id # 0 THEN uuid_count + 1 ELSE uuid_count
    /\ account_count' = account_count + 1
    /\ sessions' = [sessions EXCEPT ![s] =
                        [pc |-> "idle", sent |-> @.sent + 1, op |-> "register_account",
                         id |-> 0, seen |-> Len(repo.banks)]]
    /\ UNCHANGED panicked
    /\ LockUnchanged

LockNext ==
    \/ \E s \in Sessions : LockValidate(s)
    \/ \E s \in Sessions : LockAct(s)
    \/ \E s \in Sessions : LockWhichBank(s)
    \/ \E s \in Sessions : LockRegisterAccount(s)

SpecLock == LockInit /\ [][LockNext]_vars

----------------------------------------------------------------------------
\* linked_list: pushes on one List

ListValues == {1, 2}

ListInit ==
    /\ ActorIdle
    /\ BankIdle
    /\ ReplayIdle
    /\ RepoIdle
    /\ overflow_checks = TRUE
    /\ uuid_count = 0
    /\ panicked = FALSE
    /\ steps = 0
    /\ list = List_new
    /\ reference = << >>

ListUnchanged == UNCHANGED <<uuid_count, overflow_checks, panicked, bankVars,
                             replayVars, repoVars, actorVars>>

PushBack ==
    /\ steps < MaxPushes
    /\ \E value \in ListValues :
          /\ list' = push_back(list, value)
          /\ reference' = Append(reference, value)
    /\ steps' = steps + 1
    /\ ListUnchanged

PushFront ==
    /\ steps < MaxPushes
    /\ \E value \in ListValues :
          /\ list' = push_front(list, value)
          /\ reference' = <<value>> \o reference
    /\ steps' = steps + 1
    /\ ListUnchanged

\* idx ranges over the positions and one past the last
PushAfter ==
    /\ steps < MaxPushes
    /\ \E value \in ListValues, idx \in 0..list.size :
          /\ list' = push_after(list, idx, value)
          /\ reference' = reference_push_after(reference, idx, value)
    /\ steps' = steps + 1
    /\ ListUnchanged

\* idx ranges over the positions and one past the last; set allocates no
\* node, so it is not counted among the pushes
Set ==
    /\ \E value \in ListValues, idx \in 0..list.size :
          /\ list' = set(list, idx, value)
          /\ reference' = reference_set(reference, idx, value)
    /\ UNCHANGED steps
    /\ ListUnchanged

ListNext ==
    \/ PushBack
    \/ PushFront
    \/ PushAfter
    \/ Set

SpecList == ListInit /\ [][ListNext]_vars

----------------------------------------------------------------------------
\* Vocabulary of the properties

MutatingOps == {"register_account", "deposit", "withdraw", "transfer"}

Errors == {"NotFound", "AlreadyExists", "ZeroAmount", "InsufficientFunds",
           "TransferToItself"}

\* the last call was a mutating command that returned Err(_)
Failed == last.op \in MutatingOps /\ last.res \in Errors

\* the last call was a mutating command that returned Ok(_)
Succeeded == last.op \in MutatingOps /\ last.res = "Ok"

PreLog == last.pre.operations_log.operations
PostLog == bank.operations_log.operations

\* every balance of b, read as the signed value the update computes with, is >= 0
\* (the balance is below 2^63)
NonNegative(b) == \A id \in DOMAIN b.accounts : as_i64(b.accounts[id]) >= 0

\* the debit leg of the last transfer, evaluated on the bank the call started from
DebitLeg == update_account_balance_by_amount(last.pre, last.id, neg_i64(last.amount))

\* the last call was a transfer whose debit leg returned Ok and whose credit leg
\* returned an error
DebitOkCreditFailed ==
    /\ last.op = "transfer"
    /\ last.id # last.id2
    /\ last.res \in Errors
    /\ DebitLeg.res = "Ok"

SumOfBalances(b) ==
    LET RECURSIVE Sum(_)
        Sum(S) == IF S = {} THEN 0
                  ELSE LET id == CHOOSE x \in S : TRUE
                       IN b.accounts[id] + Sum(S \ {id})
    IN Sum(DOMAIN b.accounts)

----------------------------------------------------------------------------
\* C1: while balances and amounts are below 2^63 no balance becomes negative
\* (a call given an amount below 2^63 on a bank whose balances are all below
\* 2^63 leaves them all in 0 .. 2^63-1), and a withdraw, or a transfer to another
\* account, of more than the debited account's balance returns
\* InsufficientFunds and changes nothing.
C1_NoOverdraft ==
    /\ (last.op \in MutatingOps /\ last.amount < Half /\ NonNegative(last.pre))
           => NonNegative(bank)
    /\ (/\ last.op = "withdraw" \/ (last.op = "transfer" /\ last.id # last.id2)
        /\ last.id \in DOMAIN last.pre.accounts
        /\ NonNegative(last.pre)
        /\ last.amount < Half
        /\ last.amount > last.pre.accounts[last.id])
           => (last.res = "InsufficientFunds" /\ bank = last.pre)

C1_Witness ==
    /\ last.op = "transfer"
    /\ last.id # last.id2
    /\ last.id \in DOMAIN last.pre.accounts
    /\ NonNegative(last.pre)
    /\ last.amount < Half
    /\ last.amount > last.pre.accounts[last.id]
    /\ last.pre.accounts[last.id] > 0
    /\ last.res = "InsufficientFunds"

\* C2: Bank::restore(bank.get_all_operations()) returns Ok with a bank equal to
\* the bank it was taken from (accounts, balances and log), for every bank
\* reachable through the public operations.
C2_RestoreRoundTrip ==
    last.op = "restore" => (last.res = "Ok" /\ last.restored = bank)

\* C3: a mutating command that returns Ok has appended exactly one entry to the
\* log; one that returns an error has left the log as it was.
C3_AcceptOrReject ==
    /\ Succeeded => (Len(PostLog) = Len(PreLog) + 1 /\ SubSeq(PostLog, 1, Len(PreLog)) = PreLog)
    /\ Failed => bank.operations_log = last.pre.operations_log

C3_Witness ==
    /\ DebitOkCreditFailed
    /\ Len(PreLog) > 0
    /\ bank # last.pre

\* C4: a failing register_account, deposit or withdraw, and a transfer failing
\* with TransferToItself or at its debit leg, leaves the whole bank unchanged.
C4_FailureLeavesBankUnchanged ==
    (/\ Failed
     /\ last.op = "transfer" => (last.res = "TransferToItself" \/ DebitLeg.res # "Ok"))
        => bank = last.pre

C4_Witness ==
    /\ Failed
    /\ last.op = "transfer"
    /\ last.res = "InsufficientFunds"
    /\ DebitLeg.res = "InsufficientFunds"
    /\ last.id2 \in DOMAIN last.pre.accounts
    /\ bank = last.pre

\* C5: when the debit of a transfer succeeds and the credit fails, the call
\* returns the credit leg's error, the sender's balance is the old balance
\* minus amount, the receiver is unchanged and nothing is logged.
C5_PartialTransfer ==
    DebitOkCreditFailed =>
        /\ last.res = update_account_balance_by_amount(
                          DebitLeg.bank, last.id2, as_i64(last.amount)).res
        /\ bank.accounts[last.id] = last.pre.accounts[last.id] - last.amount
        /\ \A id \in DOMAIN last.pre.accounts \ {last.id} :
               bank.accounts[id] = last.pre.accounts[id]
        /\ DOMAIN bank.accounts = DOMAIN last.pre.accounts
        /\ bank.operations_log = last.pre.operations_log

\* C6: whenever the debit leg of a transfer succeeds, the credit leg succeeds
\* too (the transfer returns Ok).
C6_NoPartialTransfer ==
    (last.op = "transfer" /\ last.id # last.id2 /\ last.res # "Panic"
        /\ DebitLeg.res = "Ok")
        => last.res = "Ok"

\* C7: deposit(id, 0) and withdraw(id, 0) return ZeroAmount, for a registered
\* and for an unregistered id, and leave balances and log unchanged.
C7_ZeroAmountRejected ==
    (last.op \in {"deposit", "withdraw"} /\ last.amount = 0)
        => (last.res = "ZeroAmount" /\ bank = last.pre)

C7_Witness ==
    /\ last.op = "withdraw"
    /\ last.amount = 0
    /\ last.id \notin DOMAIN last.pre.accounts
    /\ DOMAIN last.pre.accounts # {}
    /\ last.res = "ZeroAmount"

\* C8: transfer(id, id, amount) with amount > 0 returns TransferToItself,
\* whatever the balance of id and whether or not id is registered, and leaves
\* balances and log unchanged.
C8_TransferToItself ==
    (last.op = "transfer" /\ last.id = last.id2 /\ last.amount > 0)
        => (last.res = "TransferToItself" /\ bank = last.pre)

C8_Witness ==
    /\ last.op = "transfer"
    /\ last.id = last.id2
    /\ last.amount > 0
    /\ last.id \in DOMAIN last.pre.accounts
    /\ last.pre.accounts[last.id] >= last.amount
    /\ last.res = "TransferToItself"

\* C9: a successful transfer lowers the sender's balance by amount, raises the
\* receiver's by amount, leaves the other accounts and the sum of balances
\* unchanged, and appends the entry Transfer{sender, receiver, amount} under
\* the returned OperationID.
C9_TransferMovesAmount ==
    (last.op = "transfer" /\ last.res = "Ok") =>
        /\ bank.accounts[last.id] = last.pre.accounts[last.id] - last.amount
        /\ bank.accounts[last.id2] = last.pre.accounts[last.id2] + last.amount
        /\ \A id \in DOMAIN last.pre.accounts \ {last.id, last.id2} :
               bank.accounts[id] = last.pre.accounts[id]
        /\ DOMAIN bank.accounts = DOMAIN last.pre.accounts
        /\ SumOfBalances(bank) = SumOfBalances(last.pre)
        /\ PostLog = Append(PreLog, Operation(last.op_id,
                                Transfer(last.id, last.id2, last.amount)))

\* C10: with balance + amount below 2^63, a successful deposit sets the balance
\* to old + amount and a successful withdraw to old - amount; each appends the
\* one entry Deposit/Withdraw{id, amount}, and get_operation of the returned
\* OperationID returns that entry.
C10_DepositWithdraw ==
    (/\ last.op \in {"deposit", "withdraw"}
     /\ last.res = "Ok"
     /\ last.pre.accounts[last.id] + last.amount < Half) =>
        LET entry == Operation(last.op_id,
                         IF last.op = "deposit" THEN Deposit(last.id, last.amount)
                         ELSE Withdraw(last.id, last.amount))
        IN /\ bank.accounts[last.id] =
                  IF last.op = "deposit"
                  THEN last.pre.accounts[last.id] + last.amount
                  ELSE last.pre.accounts[last.id] - last.amount
           /\ PostLog = Append(PreLog, entry)
           /\ get_operation(bank, last.op_id) = entry

C10_Witness ==
    /\ last.op = "withdraw"
    /\ last.res = "Ok"
    /\ last.pre.accounts[last.id] + last.amount < Half
    /\ Len(PreLog) >= 2
    /\ bank.accounts[last.id] = last.pre.accounts[last.id] - last.amount

\* C11: register_account of an id already present returns AlreadyExists and
\* leaves the bank (the existing balance, the log) unchanged; of a new id it
\* returns Ok, stores the account with the given balance, changes no other
\* account and appends the entry Register{id, balance} under the returned id.
C11_RegisterAccount ==
    (last.op = "register_account" /\ last.res # "none") =>
        IF last.id \in DOMAIN last.pre.accounts
        THEN last.res = "AlreadyExists" /\ bank = last.pre
        ELSE /\ last.res = "Ok"
             /\ DOMAIN bank.accounts = DOMAIN last.pre.accounts \cup {last.id}
             /\ bank.accounts[last.id] = last.amount
             /\ \A id \in DOMAIN last.pre.accounts :
                    bank.accounts[id] = last.pre.accounts[id]
             /\ PostLog = Append(PreLog, Operation(last.op_id,
                                     Register(last.id, last.amount)))
             /\ get_operation(last.pre, last.op_id) = NoOperation

C11_Witness ==
    /\ last.op = "register_account"
    /\ last.id \in DOMAIN last.pre.accounts
    /\ last.pre.accounts[last.id] # last.amount
    /\ last.amount = 0
    /\ last.res = "AlreadyExists"

\* C12: get_all_operations() yields exactly the kinds of the commands that
\* returned Ok, in the order the commands were executed.
C12_LogIsAcceptedCommands ==
    [i \in 1..Len(get_all_operations(bank.operations_log)) |->
         get_all_operations(bank.operations_log)[i].kind] = accepted

C12_Witness ==
    /\ last.op = "withdraw"
    /\ last.res = "InsufficientFunds"
    /\ Len(accepted) >= 2
    /\ accepted[Len(accepted)].type = "Deposit"

\* the operation kind k references account a
References(k, a) ==
    IF k.type = "Transfer" THEN a \in {k.sender_id, k.receiver_id} ELSE k.id = a

\* C13: for every account id a, get_account_operations(a) is the subsequence
\* of get_all_operations() whose kinds reference a, each once and in the same
\* order; it is empty for an id no operation references.
C13_AccountOperations ==
    \A a \in AccountIDs :
        get_account_operations(bank.operations_log, a) =
            SelectSeq(get_all_operations(bank.operations_log),
                      LAMBDA o : References(o.kind, a))

C13_Witness ==
    /\ last.op = "transfer"
    /\ last.res = "Ok"
    /\ Len(get_account_operations(bank.operations_log, last.id2)) >= 2
    /\ \E a \in AccountIDs : get_account_operations(bank.operations_log, a) = << >>

IsPrefix(s, t) == Len(s) <= Len(t) /\ SubSeq(t, 1, Len(s)) = s

\* C14: the log is append-only: in every step the log before the step is a
\* prefix of the log after it.
C14_AppendOnly ==
    [][IsPrefix(bank.operations_log.operations, bank'.operations_log.operations)]_vars

C14_Witness ==
    /\ Succeeded
    /\ Len(PreLog) >= 2
    /\ IsPrefix(PreLog, PostLog)
    /\ Len(PostLog) = Len(PreLog) + 1

\* the command an operation records, issued on bank b
Command(b, operation) ==
    LET k == operation.kind
    IN CASE k.type = "Register" ->
              register_account(b, [id |-> k.id, balance |-> k.balance], operation.id)
         [] k.type = "Deposit" -> deposit(b, k.id, k.amount, operation.id)
         [] k.type = "Withdraw" -> withdraw(b, k.id, k.amount, operation.id)
         [] k.type = "Transfer" ->
              transfer(b, k.sender_id, k.receiver_id, k.amount, operation.id)

\* the commands of a sequence issued one after the other on bank b from the
\* i-th on: the position and the error of the first that fails (at = 0: none)
RECURSIVE FirstFailure(_, _, _)
FirstFailure(b, operations, i) ==
    IF i > Len(operations) THEN [at |-> 0, res |-> "Ok"]
    ELSE LET r == Command(b, operations[i])
         IN IF r.res # "Ok" THEN [at |-> i, res |-> r.res]
            ELSE FirstFailure(r.bank, operations, i + 1)

\* C15: Bank::restore on a sequence in which some step would fail stops at
\* the first such step (the steps before it, and no more, were replayed),
\* returns that step's error and returns no bank.
C15_RestoreFailsFast ==
    replay.pc = "done" =>
        LET f == FirstFailure(Bank_default, replay.operations, 1)
        IN f.at > 0 =>
              /\ f.res \in Errors
              /\ replay.res = f.res
              /\ replay.replayed = f.at - 1
              /\ replay.bank = NoBank

\* a sequence of three operations whose second step fails was given to restore
C15_Witness ==
    /\ replay.pc = "done"
    /\ Len(replay.operations) = 3
    /\ FirstFailure(Bank_default, replay.operations, 1).at = 2
    /\ replay.res \in Errors

\* Repository vocabulary

Async == variant = "bank_async"

RepoCalled(op) == rlast.op = op

\* the id given to the last change_bank / restore_bank names a bank that existed
ValidBankId == 1 <= rlast.id /\ rlast.id <= Len(rlast.pre.banks)

\* C16: in the bank_async Repository current_bank_id() is 0 exactly when no
\* bank exists, otherwise it lies in 1..number of banks, the stored index
\* designating an existing bank.
C16_CurrentBankId ==
    Async =>
        /\ current_bank_id(repo) = 0 <=> Len(repo.banks) = 0
        /\ Len(repo.banks) > 0 =>
              /\ 1 <= current_bank_id(repo)
              /\ current_bank_id(repo) <= Len(repo.banks)
              /\ repo.current_bank + 1 \in DOMAIN repo.banks

\* change_bank made the first of several banks current
C16_Witness ==
    /\ Async
    /\ RepoCalled("change_bank")
    /\ rlast.res = "Ok"
    /\ Len(repo.banks) >= 2
    /\ rlast.pre.current_bank = Len(repo.banks) - 1
    /\ current_bank_id(repo) = 1

\* C17: new_bank() appends one empty ledger at the end of the bank list (the
\* banks before it unchanged), makes it current and returns its 1-based id,
\* the new number of banks.
C17_NewBank ==
    (Async /\ RepoCalled("new_bank")) =>
        /\ rlast.res = "Ok"
        /\ repo.banks = Append(rlast.pre.banks, Bank_default)
        /\ repo.banks[Len(repo.banks)].accounts = << >>
        /\ repo.banks[Len(repo.banks)].operations_log.operations = << >>
        /\ repo.current_bank = Len(repo.banks) - 1
        /\ rlast.result = Len(repo.banks)
        /\ current_bank_id(repo) = rlast.result

\* new_bank on a repository whose first bank has an account and whose current
\* bank was not the last
C17_Witness ==
    /\ Async
    /\ RepoCalled("new_bank")
    /\ Len(rlast.pre.banks) >= 2
    /\ rlast.pre.current_bank = 0
    /\ rlast.pre.banks[1].accounts # << >>
    /\ rlast.result = Len(rlast.pre.banks) + 1

\* C18: change_bank(id) succeeds, making id current and leaving the banks
\* alone, exactly when 1 <= id <= number of banks; change_bank(id) and
\* restore_bank(id) with id outside that range return InvalidBankId and leave
\* the bank list and the current bank unchanged.
C18_InvalidBankId ==
    Async =>
        /\ RepoCalled("change_bank") =>
              /\ rlast.res = "Ok" <=> ValidBankId
              /\ ValidBankId =>
                    /\ repo.banks = rlast.pre.banks
                    /\ repo.current_bank = rlast.id - 1
                    /\ current_bank_id(repo) = rlast.id
        /\ ((RepoCalled("change_bank") \/ RepoCalled("restore_bank")) /\ ~ValidBankId) =>
              /\ rlast.res = "InvalidBankId"
              /\ repo = rlast.pre

\* change_bank with an id one past the last bank, the first of two banks current
C18_Witness ==
    /\ Async
    /\ RepoCalled("change_bank")
    /\ rlast.id = 3
    /\ rlast.res = "InvalidBankId"
    /\ Len(repo.banks) = 2
    /\ repo.current_bank = 0

\* C19: in the bank_async Repository restore_bank(id) with a valid id appends
\* a ledger with the accounts, balances and log of bank id, makes it current
\* (its id the new number of banks) and leaves the other banks unchanged.
C19_RestoreBankCopiesTarget ==
    (Async /\ RepoCalled("restore_bank") /\ ValidBankId) =>
        /\ rlast.res = "Ok"
        /\ repo.banks = Append(rlast.pre.banks, rlast.pre.banks[rlast.id])
        /\ repo.current_bank = Len(repo.banks) - 1
        /\ current_bank_id(repo) = Len(repo.banks)

\* C20: in the bank_channel Repository and the bank_srv_cl handler
\* restore_bank(id) with a valid id appends the ledger replayed from the log
\* of bank id, whichever bank is current, and the bank_srv_cl reply's Result
\* is the 1-based id of the new bank.
C20_RestoreFromTarget ==
    (~Async /\ RepoCalled("restore_bank") /\ ValidBankId /\ rlast.res = "Ok") =>
        LET target == rlast.pre.banks[rlast.id]
            expected == restore(get_all_operations(target.operations_log))
        IN /\ Len(repo.banks) = Len(rlast.pre.banks) + 1
           /\ expected.res = "Ok"
           /\ repo.banks[Len(repo.banks)] = expected.bank
           /\ variant = "bank_srv_cl" => rlast.result = Len(repo.banks)

LedgerCommands == {"register_account", "deposit", "withdraw", "transfer"}

Queries == {"get_balance", "list_account_operations", "list_all_operations"}

\* the last repository call was made while no bank existed
OnEmpty == Len(rlast.pre.banks) = 0

\* what the last deposit, withdraw or transfer returns on a ledger with no account
ErrorOnEmptyLedger ==
    IF rlast.op = "transfer" /\ rlast.id = rlast.id2 THEN "TransferToItself"
    ELSE IF rlast.amount = 0 THEN "ZeroAmount"
    ELSE "NotFound"

\* C21: in the bank_async Repository a register_account, deposit, withdraw or
\* transfer on an empty repository creates bank 1, makes it current and
\* delegates to it: register_account succeeds with its operation logged in
\* bank 1, the others return the ledger's error; current_bank_id() is then 1.
C21_LazyFirstBank ==
    (Async /\ rlast.op \in LedgerCommands /\ OnEmpty) =>
        /\ Len(repo.banks) = 1
        /\ repo.current_bank = 0
        /\ current_bank_id(repo) = 1
        /\ rlast.op = "register_account" =>
              /\ rlast.res = "Ok"
              /\ rlast.op_id # 0
              /\ DOMAIN repo.banks[1].accounts = {rlast.result}
              /\ repo.banks[1].accounts[rlast.result] = rlast.amount
              /\ repo.banks[1].operations_log.operations =
                     <<Operation(rlast.op_id, Register(rlast.result, rlast.amount))>>
        /\ rlast.op # "register_account" =>
              /\ rlast.res = ErrorOnEmptyLedger
              /\ rlast.op_id = 0
              /\ repo.banks[1] = Bank_default

\* a withdraw on the empty repository returned the ledger's NotFound
C21_Witness ==
    /\ Async
    /\ rlast.op = "withdraw"
    /\ OnEmpty
    /\ rlast.res = "NotFound"
    /\ current_bank_id(repo) = 1

\* C22: get_balance, get_account_operations and get_all_operations on an empty
\* repository create no bank: afterwards there are zero banks and
\* current_bank_id() is 0.
C22_QueriesCreateNothing ==
    (Async /\ rlast.op \in Queries /\ OnEmpty) =>
        /\ Len(repo.banks) = 0
        /\ current_bank_id(repo) = 0

\* C23: which_bank on an empty repository creates bank 1, makes it current and
\* reports 1; on a non-empty repository it creates nothing and reports the
\* current bank's 1-based id.
C23_WhichBank ==
    (Async /\ RepoCalled("which_bank")) =>
        /\ rlast.res = "Ok"
        /\ OnEmpty =>
              /\ repo.banks = <<Bank_default>>
              /\ repo.current_bank = 0
              /\ rlast.result = 1
        /\ ~OnEmpty =>
              /\ repo = rlast.pre
              /\ rlast.result = rlast.pre.current_bank + 1

\* which_bank was the first command on an empty repository
C23_Witness ==
    /\ Async
    /\ RepoCalled("which_bank")
    /\ OnEmpty
    /\ Len(repo.banks) = 1
    /\ rlast.result = 1

\* C24: in the bank_channel Repository and the bank_srv_cl handler a
\* get_balance, deposit, withdraw, transfer or list command issued before any
\* bank exists gets a normal reply and the server keeps serving: nothing
\* panics.
C24_NormalReplyOnEmpty ==
    (/\ ~Async
     /\ rlast.op \in (Queries \cup {"deposit", "withdraw", "transfer"})
     /\ OnEmpty)
        => (rlast.res # "Panic" /\ ~panicked)

\* Actor vocabulary

\* the entries of a sequence of tagged entries that come from session s
FromSession(seq, s) == SelectSeq(seq, LAMBDA e : e.from = s)

\* the messages of session s on the channel
Queued(s) == FromSession(channel, s)

\* the number of commands of session s that are queued, with the actor, or
\* answered but not yet received by the session
Outstanding(s) ==
    Len(Queued(s))
    + (IF actor.pc = "send" /\ actor.message.from = s THEN 1 ELSE 0)
    + (IF sessions[s].oneshot.sent THEN 1 ELSE 0)

\* C25: at most one command is being executed against the Repository at any
\* moment: a command whose execution has started and whose reply has not been
\* handed to its reply channel is the only one, and it is the one the actor holds.
C25_OneCommandAtATime ==
    /\ Cardinality(history.executing) <= 1
    /\ actor.pc = "recv" => history.executing = {}
    /\ actor.pc = "send" => history.executing = {Tag(actor.message)}

\* the actor holds the response of one session while the other session's
\* command waits on the channel
C25_Witness ==
    /\ actor.pc = "send"
    /\ actor.message.from = 1
    /\ Len(Queued(2)) = 1
    /\ history.executing = {<<1, 1>>}

\* C26: each connection has at most one command outstanding, and the actor
\* executes the commands of one connection in the order it submitted them.
C26_SessionOrder ==
    \A s \in Sessions :
        /\ Outstanding(s) <= 1
        /\ sessions[s].pc = "read" => Outstanding(s) = 0
        /\ LET mine == FromSession(history.executed, s)
           IN /\ Len(mine) <= Len(history.submitted[s])
              /\ \A i \in 1..Len(mine) :
                    /\ mine[i].n = i
                    /\ mine[i].command = history.submitted[s][i]

\* both sessions have had two commands executed, the second session's first
\* command before the first session's first
C26_Witness ==
    /\ Len(history.executed) = 4
    /\ history.executed[1].from = 2
    /\ Len(FromSession(history.executed, 1)) = 2
    /\ history.submitted[1][1] # history.submitted[1][2]

\* the commands of a sequence of executed entries run one at a time, from the
\* i-th on, on repository r with account_count / uuid_count ids generated so
\* far: the final repository and the responses in order
RECURSIVE SequentialRun(_, _, _, _, _)
SequentialRun(r, accounts, operations, entries, i) ==
    IF i > Len(entries) THEN [repo |-> r, responses |-> << >>]
    ELSE LET h == actor_handle_command(r, entries[i].command, accounts + 1,
                                       operations + 1)
             rest == SequentialRun(h.repo,
                                   IF h.new_account THEN accounts + 1 ELSE accounts,
                                   IF h.new_operation THEN operations + 1 ELSE operations,
                                   entries, i + 1)
         IN [repo |-> rest.repo, responses |-> <<h.response>> \o rest.responses]

\* the commands executed so far, run one at a time on an empty repository
OneAtATime == SequentialRun(Repository_default, 0, 0, history.executed, 1)

\* every session has sent all its commands and received every reply
Quiescent ==
    \A s \in Sessions : sessions[s].sent = MaxCommands /\ sessions[s].pc = "read"

\* C27: the repository (every balance, every log) is the result of executing
\* the commands one at a time in one total order that keeps each session's own
\* order; no submitted command is lost, every recorded response is the one of
\* that sequential execution, and when all sessions are done all N*M commands
\* have been executed.
C27_Linearizable ==
    /\ LET run == OneAtATime
       IN /\ repo = run.repo
          /\ \A i \in 1..Len(history.executed) :
                history.executed[i].response = run.responses[i]
    /\ \A s \in Sessions :
          LET mine == FromSession(history.executed, s)
          IN /\ Len(mine) + Len(Queued(s)) = Len(history.submitted[s])
             /\ \A i \in 1..Len(mine) : mine[i].command = history.submitted[s][i]
    /\ Quiescent => Len(history.executed) = Cardinality(Sessions) * MaxCommands

\* all sessions are done and the account registered by one session holds its
\* opening balance and the three deposits made by both sessions
C27_Witness ==
    /\ Quiescent
    /\ Len(repo.banks) = 1
    /\ 1 \in DOMAIN repo.banks[1].accounts
    /\ repo.banks[1].accounts[1] = 5
    /\ Len(FromSession(history.executed, 1)) = 2
    /\ Len(FromSession(history.executed, 2)) = 2

\* the operation a successfully executed ledger command has logged
LoggedOperation(e) ==
    Operation(e.response.op_id,
              CASE e.command.type = "RegisterAccount" ->
                     Register(e.response.result, e.command.amount)
                [] e.command.type = "Deposit" -> Deposit(e.command.id, e.command.amount)
                [] e.command.type = "Withdraw" -> Withdraw(e.command.id, e.command.amount)
                [] e.command.type = "Transfer" ->
                     Transfer(e.command.id, e.command.id2, e.command.amount))

\* the successful mutating commands applied to bank k, in the order executed
AppliedTo(k) ==
    SelectSeq(history.executed,
              LAMBDA e : /\ e.command.type \in {"RegisterAccount", "Deposit",
                                                 "Withdraw", "Transfer"}
                         /\ e.response.status = "ok"
                         /\ e.response.bank = k)

\* C28: the actor executes the commands in the order they arrived on the
\* channel, and the log of every bank lists the successful mutating commands
\* applied to it in the order the actor dequeued them, across all sessions.
C28_ArrivalOrder ==
    /\ Len(history.executed) <= Len(history.arrived)
    /\ \A i \in 1..Len(history.executed) :
          <<history.executed[i].from, history.executed[i].n>> = history.arrived[i]
    /\ \A k \in 1..Len(repo.banks) :
          LET applied == AppliedTo(k)
          IN repo.banks[k].operations_log.operations =
                 [i \in 1..Len(applied) |-> LoggedOperation(applied[i])]

\* the log of bank 1 holds three operations, of sessions 1, 2 and 1 in turn
C28_Witness ==
    /\ Len(repo.banks) >= 1
    /\ Len(AppliedTo(1)) = 3
    /\ AppliedTo(1)[1].from = 1
    /\ AppliedTo(1)[2].from = 2
    /\ AppliedTo(1)[3].from = 1
    /\ Len(repo.banks[1].operations_log.operations) = 3

\* C29: every command sent to the actor gets exactly one reply, delivered to
\* the session that sent it, computed from the repository at the moment the
\* command was executed, and written unchanged to that session's client: each
\* command a session has sent is answered and written, or is still on its way
\* (queued, with the actor, or in the session's reply channel).
C29_OneReplyToSender ==
    /\ \A s \in Sessions :
          Len(history.written[s]) + Outstanding(s) = Len(history.submitted[s])
    /\ LET responses == OneAtATime.responses
       IN \A i \in 1..Len(history.executed) :
             history.executed[i].response = responses[i]
    /\ \A s \in Sessions :
          LET mine == FromSession(history.executed, s)
              written == history.written[s]
          IN /\ Len(written) <= Len(mine)
             /\ \A i \in 1..Len(written) : written[i] = mine[i].response
             /\ sessions[s].oneshot.sent =>
                   /\ sessions[s].pc = "await"
                   /\ Len(mine) = Len(written) + 1
                   /\ sessions[s].oneshot.response = mine[Len(mine)].response
             /\ sessions[s].pc = "read" => Len(written) = Len(history.submitted[s])

\* the actor and the resumed handlers are scheduled fairly
SpecActorFair ==
    /\ SpecActor
    /\ WF_vars(ActorExecute)
    /\ WF_vars(ActorReply)
    /\ \A s \in Sessions : WF_vars(SessionWrite(s))

\* C30: under fair scheduling every command on the channel is eventually
\* executed and answered, so a session waiting for a reply is eventually
\* resumed, whatever the other sessions do.
C30_EventuallyResumed ==
    \A s \in Sessions : (sessions[s].pc = "await") ~> (sessions[s].pc = "read")

\* session 2 waits while the command of session 1 is ahead of its own on the channel
C30_Witness ==
    /\ sessions[2].pc = "await"
    /\ Len(channel) = 2
    /\ channel[1].from = 1
    /\ channel[2].from = 2

\* C31: when a session disappears after submitting a command, the command is
\* still executed with its full effect (the repository is the one of the
\* sequential run of every arrived command the actor has reached), the reply
\* that cannot be delivered is discarded and written nowhere, and the actor is
\* never stopped: it is at recv, ready for the next command, or at send.
C31_DisconnectedStillExecuted ==
    /\ actor.pc \in {"recv", "send"}
    /\ LET run == OneAtATime
       IN /\ repo = run.repo
          /\ \A i \in 1..Len(history.executed) :
                history.executed[i].response = run.responses[i]
    /\ Len(history.executed) + Len(channel) = Len(history.arrived)
    /\ \A i \in 1..Len(history.executed) :
          <<history.executed[i].from, history.executed[i].n>> = history.arrived[i]
    /\ \A i \in 1..Len(history.discarded) :
          LET d == history.discarded[i]
          IN /\ sessions[d.from].pc = "gone"
             /\ d.at \in 1..Len(history.executed)
             /\ history.executed[d.at].from = d.from
             /\ history.executed[d.at].n = d.n
             /\ history.executed[d.at].response = d.response
             /\ Len(history.written[d.from]) < d.n
    /\ \A s \in Sessions :
          sessions[s].pc = "gone" =>
              /\ ~sessions[s].oneshot.sent
              /\ Len(history.written[s]) < sessions[s].sent

\* session 1 disappeared after sending register_account; the account exists,
\* the reply was discarded, and a later command of session 2 was executed and
\* its reply written
C31_Witness ==
    /\ sessions[1].pc = "gone"
    /\ Len(history.discarded) = 1
    /\ history.discarded[1].from = 1
    /\ history.discarded[1].response.status = "ok"
    /\ history.submitted[1] = <<Command_of("RegisterAccount", 0, 0, 2)>>
    /\ Len(repo.banks) = 1
    /\ 1 \in DOMAIN repo.banks[1].accounts
    /\ Len(history.executed) > history.discarded[1].at
    /\ history.executed[Len(history.executed)].from = 2
    /\ history.executed[Len(history.executed)].command.type = "Deposit"
    /\ history.executed[Len(history.executed)].response.status = "ok"
    /\ Len(history.written[2]) = Len(FromSession(history.executed, 2))
    /\ sessions[2].pc = "read"

\* C32: a handler answers quit, help and an unparsable line itself: its step
\* sends nothing to the actor, leaves the repository unchanged and writes the
\* local reply, also when the actor's channel is closed; the repository changes
\* only in a step in which the actor dequeues a command and executes it.
C32_HandlersLeaveLedgerAlone ==
    [][/\ \A s \in Sessions :
             Len(history.local'[s]) > Len(history.local[s]) =>
                 /\ channel' = channel
                 /\ history.arrived' = history.arrived
                 /\ repo' = repo
                 /\ actor' = actor
                 /\ history.written'[s] =
                        Append(history.written[s],
                               LocalReply(history.local'[s][Len(history.local'[s])]))
       /\ repo' # repo =>
             /\ actor.pc = "recv"
             /\ actor'.pc = "send"
             /\ channel # << >>
             /\ channel' = Tail(channel)
             /\ sessions' = sessions
             /\ Len(history.executed') = Len(history.executed) + 1
             /\ actor'.message = Head(channel)]_vars

\* the channel is closed and a session has had help, an unparsable line and
\* quit answered, on an untouched repository
C32_Witness ==
    /\ actor.pc = "closed"
    /\ history.local[1] = <<"help", "quit">>
    /\ history.local[2] = <<"unparsable", "quit">>
    /\ Len(history.written[1]) = 2
    /\ sessions[1].pc = "quit"
    /\ repo = Repository_default

\* C33: the order of the checks. transfer: sender = receiver gives
\* TransferToItself whatever the amount (also 0); otherwise amount 0 gives
\* ZeroAmount whether or not the accounts exist; otherwise an unknown sender
\* gives NotFound; otherwise a sender with less than amount gives
\* InsufficientFunds whether or not the receiver exists, and NotFound for the
\* receiver is returned only after the debit was accepted. deposit / withdraw:
\* amount 0 gives ZeroAmount also for an unknown id, an unknown id gives
\* NotFound, and InsufficientFunds is returned only for a registered id.
C33_ErrorPrecedence ==
    /\ (last.op = "transfer" /\ last.res # "Panic") =>
          LET known == last.id \in DOMAIN last.pre.accounts
          IN /\ last.id = last.id2 => last.res = "TransferToItself"
             /\ (last.id # last.id2 /\ last.amount = 0) => last.res = "ZeroAmount"
             /\ (last.id # last.id2 /\ last.amount # 0 /\ ~known) =>
                    last.res = "NotFound"
             /\ (last.id # last.id2 /\ last.amount # 0 /\ known
                   /\ last.amount < Half /\ last.pre.accounts[last.id] < last.amount) =>
                    last.res = "InsufficientFunds"
             /\ (last.res = "NotFound" /\ known) =>
                    /\ last.id2 \notin DOMAIN last.pre.accounts
                    /\ DebitLeg.res = "Ok"
    /\ (last.op \in {"deposit", "withdraw"} /\ last.res # "Panic") =>
          /\ last.amount = 0 => last.res = "ZeroAmount"
          /\ (last.amount # 0 /\ last.id \notin DOMAIN last.pre.accounts) =>
                last.res = "NotFound"
          /\ last.res = "InsufficientFunds" =>
                (last.amount # 0 /\ last.id \in DOMAIN last.pre.accounts)

\* a transfer of more than the sender holds to an unregistered receiver is
\* rejected for the funds
C33_Witness ==
    /\ last.op = "transfer"
    /\ last.id # last.id2
    /\ last.id \in DOMAIN last.pre.accounts
    /\ last.id2 \notin DOMAIN last.pre.accounts
    /\ last.amount \in 1..(Half - 1)
    /\ last.pre.accounts[last.id] < last.amount
    /\ last.res = "InsufficientFunds"

\* C34: a deposit that returns Ok raises the balance by exactly amount and a
\* withdraw that returns Ok lowers it by exactly amount, for every u64 amount.
C34_ExactAmount ==
    (last.op \in {"deposit", "withdraw"} /\ last.res = "Ok") =>
        bank.accounts[last.id] =
            IF last.op = "deposit" THEN last.pre.accounts[last.id] + last.amount
            ELSE last.pre.accounts[last.id] - last.amount

\* the i64 sum that update_account_balance_by_amount computes for account id
\* of bank b and the signed amount leaves the i64 range
SumOverflows(b, id, amount) ==
    /\ amount # 0
    /\ id \in DOMAIN b.accounts
    /\ overflows_i64(as_i64(b.accounts[id]) + amount)

\* the last deposit or withdraw evaluated `-(amount as i64)` or
\* `account.balance as i64 + amount` outside the i64 range
LastOverflows ==
    \/ /\ last.op = "deposit"
       /\ SumOverflows(last.pre, last.id, as_i64(last.amount))
    \/ /\ last.op = "withdraw"
       /\ \/ neg_overflows(last.amount)
          \/ SumOverflows(last.pre, last.id, neg_i64(last.amount))

\* C35: the signed arithmetic of the balance update never leaves the i64
\* range: no deposit or withdraw panics, and none computes a sum or a
\* negation that wraps around.
C35_NoOverflow ==
    /\ last.op \in {"deposit", "withdraw"} => last.res # "Panic"
    /\ ~LastOverflows

\* the accounts an operation kind is indexed under
AccountsOf(k) == IF k.type = "Transfer" THEN {k.sender_id, k.receiver_id} ELSE {k.id}

\* the indexes of log l agree with its sequence of operations
LogConsistent(l) ==
    LET ops == l.operations
    IN /\ \A i, j \in 1..Len(ops) : i # j => ops[i].id # ops[j].id
       /\ DOMAIN l.operations_by_id = {ops[i].id : i \in 1..Len(ops)}
       /\ \A i \in 1..Len(ops) :
             /\ l.operations_by_id[ops[i].id] = i - 1
             /\ get(l, ops[i].id) = ops[i]
       /\ \A id \in (0..(uuid_count + 1)) \ {ops[i].id : i \in 1..Len(ops)} :
             get(l, id) = NoOperation
       /\ \A a \in DOMAIN l.accounts_operations :
             \A i \in 1..Len(l.accounts_operations[a]) :
                 LET id == l.accounts_operations[a][i]
                 IN /\ id \in DOMAIN l.operations_by_id
                    /\ l.operations_by_id[id] + 1 \in 1..Len(ops)
                    /\ get(l, id).id = id
                    /\ a \in AccountsOf(get(l, id).kind)

\* C36: in every bank of the repository, created empty or by restore_bank from
\* another bank's log and changed by later commands, the operation ids of the
\* log are pairwise distinct, get of a logged id returns the operation at its
\* position, get of any other id returns none, and every id in a per-account
\* index resolves to a logged operation of that account.
C36_LogIndexes ==
    \A k \in 1..Len(repo.banks) : LogConsistent(repo.banks[k].operations_log)

\* bank 2 was restored from bank 1 and has logged a further operation of its
\* own, which the last call listed for the account
C36_Witness ==
    /\ Len(repo.banks) >= 2
    /\ Len(repo.banks[1].operations_log.operations) >= 1
    /\ Len(repo.banks[2].operations_log.operations) >
          Len(repo.banks[1].operations_log.operations)
    /\ repo.banks[2].operations_log.operations[1] =
          repo.banks[1].operations_log.operations[1]
    /\ rlast.op = "list_account_operations"
    /\ Len(rlast.listed) >= 2

\* C37: a register_account, deposit, withdraw or transfer issued through the
\* repository changes only the current bank: the number of banks and the
\* selector stay (a first bank is created on an empty repository), and every
\* other bank, the source of a fork and the forks of a source included, is
\* what it was; restore_bank appends the fork and changes no existing bank.
C37_OnlyCurrentBank ==
    LET pre == rlast.pre
    IN /\ (rlast.op \in MutatingOps /\ rlast.res \notin {"none", "Panic"}) =>
             /\ Len(repo.banks) = IF Len(pre.banks) = 0 THEN 1 ELSE Len(pre.banks)
             /\ Len(pre.banks) > 0 => repo.current_bank = pre.current_bank
             /\ \A k \in 1..Len(pre.banks) :
                   k # pre.current_bank + 1 => repo.banks[k] = pre.banks[k]
       /\ (rlast.op = "restore_bank" /\ rlast.res = "Ok") =>
             /\ Len(repo.banks) = Len(pre.banks) + 1
             /\ \A k \in 1..Len(pre.banks) : repo.banks[k] = pre.banks[k]

\* bank 2 was an exact fork of bank 1; a deposit changed it and left bank 1
C37_Witness ==
    /\ rlast.op = "deposit"
    /\ rlast.res = "Ok"
    /\ Len(rlast.pre.banks) = 2
    /\ rlast.pre.current_bank = 1
    /\ rlast.pre.banks[1] = rlast.pre.banks[2]
    /\ repo.banks[2] # rlast.pre.banks[2]
    /\ repo.banks[1] = rlast.pre.banks[1]

SelectingTypes == {"NewBank", "ChangeBank", "RestoreBank"}

LedgerTypes == {"RegisterAccount", "Deposit", "Withdraw", "Transfer", "GetBalance"}

\* the bank selected when the i-th executed command starts: the Result of the
\* latest successful new_bank / change_bank / restore_bank of any connection,
\* or the first bank, which a ledger command creates when there is none
RECURSIVE SelectedBefore(_)
SelectedBefore(i) ==
    IF i <= 1 THEN 1
    ELSE LET p == history.executed[i - 1]
         IN IF p.command.type \in SelectingTypes /\ p.response.status = "ok"
            THEN p.response.result
            ELSE SelectedBefore(i - 1)

\* C38: the selector is shared: a ledger command of connection 2, which never
\* selects a bank, is answered with the ordinal of the bank that connection 1
\* selected last, and the operation it logs is in that bank's log.
C38_SharedSelector ==
    \A i \in 1..Len(history.executed) :
        LET e == history.executed[i]
            selected == SelectedBefore(i)
        IN e.command.type \in LedgerTypes =>
              /\ e.from = 2
              /\ e.response.bank = selected
              /\ selected \in 1..Len(repo.banks)
              /\ e.response.op_id # 0 =>
                    e.response.op_id \in
                        DOMAIN repo.banks[selected].operations_log.operations_by_id

\* connection 2 registered an account in bank 1; connection 1 created bank 2;
\* the next deposit of connection 2 was answered for bank 2, where the
\* account does not exist
C38_Witness ==
    /\ Len(history.executed) = 3
    /\ history.executed[1].from = 2
    /\ history.executed[1].command.type = "RegisterAccount"
    /\ history.executed[1].response.bank = 1
    /\ history.executed[2].from = 1
    /\ history.executed[2].command.type = "NewBank"
    /\ history.executed[3].from = 2
    /\ history.executed[3].command.type = "Deposit"
    /\ history.executed[3].response.bank = 2
    /\ history.executed[3].response.status = "fail"
    /\ Len(history.written[2]) = 2

\* C39: in bank_srv_cl, with the id checked under the read lock and the
\* change made under a write lock acquired afterwards, every step of every
\* interleaving keeps the number of banks or raises it, leaves current_bank an
\* index of an existing bank whenever a bank exists, and leaves the id of a
\* handler that waits for the write lock a valid bank id.
C39_LockGapKeepsSelectorValid ==
    [][/\ Len(repo'.banks) >= Len(repo.banks)
       /\ Len(repo'.banks) > 0 => repo'.current_bank \in 0..(Len(repo'.banks) - 1)
       /\ \A s \in Sessions :
             (sessions'[s].pc = "write" /\ sessions'[s].op # "new_bank") =>
                 sessions'[s].id \in 1..Len(repo'.banks)
       /\ ~panicked']_vars

\* thread 1 validated change_bank 1 when one bank existed; thread 2 created a
\* second bank meanwhile; thread 1 then made bank 1 current again
C39_Witness ==
    /\ variant = "bank_srv_cl"
    /\ sessions[1].op = "change_bank"
    /\ sessions[1].pc = "idle"
    /\ sessions[1].sent = 1
    /\ sessions[1].seen = 1
    /\ sessions[2].op = "new_bank"
    /\ sessions[2].pc = "idle"
    /\ sessions[2].sent = 2
    /\ Len(repo.banks) = 2
    /\ repo.current_bank = 0

\* C40: after any sequence of push_back, push_front and push_after calls,
\* to_vec() is the reference sequence and its length is the size field.
C40_ToVecMatchesReference ==
    /\ to_vec(list) = reference
    /\ Len(to_vec(list)) = list.size

====
